---------------------------- MODULE Spec2Model ----------------------------
(***************************************************************************)
(* Model of the webhook Listener of wrp-listener (package listener):       *)
(* the registration engine (New, Register, Stop, use, Accept, run,         *)
(* register) with its RWMutex, WaitGroup, cancellation context, ticker and *)
(* capacity-1 update channel.                                              *)
(***************************************************************************)
EXTENDS Integers, Sequences, FiniteSets, TLC

(***************************************************************************)
(* Bounds of the model.                                                    *)
(***************************************************************************)
\* number of public calls (Register, Stop, Accept) started in one behaviour
MaxOps == 3
\* number of ticks the time.Ticker of a loop delivers in one behaviour
MaxTicks == 1
\* number of goroutine slots available to `go l.run()`
MaxLoops == 2

\* number of send cycles in one behaviour that end in an error
MaxFaults == 1

\* goroutines are numbered: the loops first, then two caller threads
LoopIds == 1..MaxLoops
Threads == {MaxLoops + 1, MaxLoops + 2}
Procs == Threads \cup LoopIds

NoSecret == "<none>"
InitialSecret == "s0"
Secrets == {"s1"}
NoOne == 0

\* the intervals New is configured with: 0 is Once(), 1 stands for any
\* positive Interval(d)
Intervals == {0, 1}

\* what http.Client.Do can answer: no response at all, or a status line
Responses == {"transport error", "200", "204", "400"}

\* the URLs New is given: New only requires a non-empty string, and
\* http.NewRequest rejects one that does not parse
BadURL == "://bad"
WebhookURLs == {"http://hook", BadURL}

\* l.reqDecorators, in the order the DecorateRequest options were given
reqDecorators == <<"d1", "d2">>

\* the registration listeners subscribed, in the order of the list
registrationListeners == <<"a", "b">>
\* the tokenize and the authorize listeners subscribed, in list order
tokenizeListeners == <<"t1", "t2">>
authorizeListeners == <<"z1">>

\* l.registration.Duration
registrationDuration == 5

(***************************************************************************)
(* State.                                                                  *)
(***************************************************************************)
VARIABLES
    interval,          \* l.interval
    mWriter,           \* l.m : the holder of the write lock, or NoOne
    wg,                \* l.wg : the WaitGroup counter
    shutdown,          \* l.shutdown # nil
    ctx,               \* l.ctx : [parent, cancelled]
    upstreamCancelled, \* l.upstreamCtx is done
    update,            \* len(l.update), a channel of capacity 1
    secret,            \* l.registration.Config.Secret
    body,              \* l.body
    acceptedSecrets,   \* l.acceptedSecrets
    hashPreferences,   \* l.hashPreferences
    hashes,            \* the keys of l.hashes
    pc,                \* position of every caller thread and loop goroutine
    arg,               \* Register's secret argument, per thread
    localShutdown,     \* Stop's local copy of l.shutdown, per thread
    ticker,            \* len(ticker.C) of a loop's ticker
    snap,              \* register's local copy of l.body, per process
    evnt,              \* register's event.Registration, per process
    ret,               \* what the last Register call of a thread returned
    log,               \* the events the registration listeners were given
    webhookURL,        \* l.webhookURL
    authorize,         \* the frame of each thread's Authorize call
    tokenize,          \* the frame of each thread's Tokenize call
    lastAccept,        \* history: the argument of the last Accept call
    optionSecrets,     \* history: the list the AcceptedSecrets options gave
    made,              \* the arguments and the return values of a New call
    listeners,         \* the list of a listeners registry, front to back
    lock,              \* its RWMutex: the read locks each thread holds
    visitor,           \* each thread's call of addListener, visit or cancel
    added,             \* history: the listeners whose handle was returned
    gone,              \* history: the listeners whose handle has returned
    dispatchNo,        \* history: the number of visits begun
    subs,              \* history: per visit, the listeners subscribed then
    delivered,         \* history: the pairs <<visit, listener>> called
    cancels,           \* history: the number of handle invocations
    \* history variables
    ops,               \* public calls started so far
    ticks,             \* ticks delivered so far
    faults,            \* send cycles that ended in an error so far
    bodyVer,           \* number of use() calls so far: the age of l.body
    snapVer,           \* bodyVer of the body a process copied
    pendingVer,        \* newest bodyVer installed by Register while running
    cycle,             \* send cycles a process has begun
    dispatched,        \* send cycles of a process whose event was dispatched
    calls,             \* Register calls a thread has completed
    callSends,         \* send cycles dispatched in a thread's current call
    callSaw,           \* what a Register call found when it began
    stopSaw,           \* cycle number of each loop mid-cycle when Stop began
    stopWasSet,        \* a Stop that found l.shutdown set has returned
    stopsReturned,     \* Stop calls that have returned
    loopsStarted       \* goroutines `go l.run()` has spawned

engine == <<interval, mWriter, wg, shutdown, ctx, upstreamCancelled, update,
            secret, body, acceptedSecrets, hashPreferences, hashes>>
procs == <<pc, arg, localShutdown, ticker, snap, evnt, ret, log>>
history == <<ops, ticks, faults, bodyVer, snapVer, pendingVer, cycle,
             dispatched, calls, callSends, callSaw, stopSaw, stopWasSet,
             stopsReturned, loopsStarted>>
callbacks == <<webhookURL, authorize>>
extras == <<tokenize, lastAccept, optionSecrets, made>>
registry ==
    <<listeners, lock, visitor, added, gone, dispatchNo, subs, delivered,
      cancels>>
vars == <<engine, procs, history, callbacks, extras, registry>>

(***************************************************************************)
(* Helpers.                                                                *)
(***************************************************************************)
MarshalStale(s) == [config |-> [secret |-> InitialSecret]]
\* json.Marshal(&l.registration): the body carries the current secret
Marshal(s) == [config |-> [secret |-> s]]

\* the zero event.Registration (Err, StatusCode, Body, At, Until), with what
\* the cycle did so far: the decorators it invoked, the step that failed,
\* whether client.Do ran and what it answered
NoEvent ==
    [err |-> "nil", status |-> 0, body |-> << >>, at |-> 0, until |-> 0,
     sent |-> FALSE, resp |-> "none", invoked |-> << >>, failed |-> "none"]

\* time.Now(), on the clock the ticker counts
Now == ticks + 1

DoneIgnoringParent(c) == c.cancelled
\* <-ctx.Done() is ready: the context or its parent was cancelled
Done(c) == c.cancelled \/ (c.parent = "upstream" /\ upstreamCancelled)

\* context.WithCancel(l.upstreamCtx)
WithCancel == [parent |-> "upstream", cancelled |-> FALSE]

CancelNotIdempotent(c) == [c EXCEPT !.cancelled = ~c.cancelled]
\* the CancelFunc l.shutdown
Cancel(c) == [c EXCEPT !.cancelled = TRUE]

NeverRunning == FALSE
\* `if l.shutdown != nil` of Register
AlreadyRunning == shutdown

\* history of a Register call: was no loop alive, had a Stop returned
NotCalled == [idle |-> FALSE, stopped |-> FALSE]

Alive(id) == pc[id] \notin {"unborn", "done"}
\* a process is inside register(): about to copy the body, with the request
\* in flight, or dispatching the event
InRegister(p) == pc[p] \in {"snap", "inflight", "dispatch"}
\* a process has copied the body and not yet dispatched the event
InCycle(p) == pc[p] \in {"inflight", "dispatch"}
\* the number of the cycle a process is in (0 when in none)
CycleNo(p) ==
    CASE pc[p] = "snap" -> cycle[p] + 1
      [] InCycle(p) -> cycle[p]
      [] OTHER -> 0

(***************************************************************************)
(* Tokens, request bodies, hex and HMAC, as Authorize uses them.           *)
(***************************************************************************)
NoToken == [alg |-> "<nil>", principal |-> << >>]

\* a request body: r.Body is nil, or a reader over data at position pos
\* whose Read may fail
NoBody == [nil |-> TRUE, data |-> << >>, pos |-> 0, broken |-> FALSE]
Reader(b) == [nil |-> FALSE, data |-> b, pos |-> 0, broken |-> FALSE]
BrokenReader(b) == [nil |-> FALSE, data |-> b, pos |-> 0, broken |-> TRUE]

\* what a read of the body to its end yields
Remaining(r) == SubSeq(r.data, r.pos + 1, Len(r.data))

\* the frame of a thread that has not called Authorize: the token, the
\* request body, the decoded principal, the bytes read, the HMAC objects and
\* the result ("none" before a call, "pending" during one); and, as history,
\* the bytes the body carried at the call and l.acceptedSecrets as getHashes
\* found it
NoCall ==
    [t |-> NoToken, r |-> NoBody, secret |-> << >>, msg |-> << >>,
     hashes |-> << >>, err |-> "none", carried |-> << >>,
     accepted |-> << >>, snapped |-> FALSE, sent |-> << >>]

LowerDigits ==
    <<"0", "1", "2", "3", "4", "5", "6", "7", "8", "9", "a", "b", "c", "d",
      "e", "f">>
UpperDigits ==
    <<"0", "1", "2", "3", "4", "5", "6", "7", "8", "9", "A", "B", "C", "D",
      "E", "F">>

\* hex.EncodeToString: two lower-case digits for every byte
RECURSIVE EncodeToString(_)
EncodeToString(b) ==
    IF b = << >>
    THEN << >>
    ELSE <<LowerDigits[(Head(b) \div 16) + 1], LowerDigits[(Head(b) % 16) + 1]>>
            \o EncodeToString(Tail(b))

IsHexChar(c) == \E i \in 1..16 : LowerDigits[i] = c \/ UpperDigits[i] = c
FromHexChar(c) ==
    (CHOOSE i \in 1..16 : LowerDigits[i] = c \/ UpperDigits[i] = c) - 1

RECURSIVE DecodePairs(_)
DecodePairs(str) ==
    IF str = << >>
    THEN << >>
    ELSE <<16 * FromHexChar(str[1]) + FromHexChar(str[2])>>
            \o DecodePairs(SubSeq(str, 3, Len(str)))

\* hex.DecodeString: an error for an odd length or a character that is no
\* hex digit, the bytes otherwise
DecodeString(str) ==
    IF Len(str) % 2 # 0 \/ \E i \in DOMAIN str : ~IsHexChar(str[i])
    THEN [err |-> "hex error", bytes |-> << >>]
    ELSE [err |-> "nil", bytes |-> DecodePairs(str)]

\* l.hashes[which]: the constructor an Accept... option stored under the
\* name; AcceptNoHash stores the name "none" with no constructor
HashFn(which) == IF which = "none" THEN "nil" ELSE which

\* the digest of hmac.New(fn, key) after Write(msg): HMAC is modelled as a
\* function that is injective in the constructor, the key and the message
FnByte(fn) == CASE fn = "sha1" -> 1 [] fn = "sha256" -> 2 [] OTHER -> 15
KeyByte(key) ==
    CASE key = "s0" -> 160 [] key = "s1" -> 161 [] key = "s2" -> 162
      [] OTHER -> 175
MsgByte(m) == IF m = << >> THEN 0 ELSE 16 * Len(m) + (Head(m) % 16)
Sum(fn, key, m) == <<FnByte(fn), KeyByte(key), MsgByte(m)>>

\* hmac.Equal: equal lengths and equal bytes
Equal(a, b) == a = b

(***************************************************************************)
(* Strings, as Tokenize and New take them apart: a string is a sequence of *)
(* characters.                                                             *)
(***************************************************************************)
Whitespace == {" ", "\t"}

RECURSIVE TrimLeft(_)
TrimLeft(str) ==
    IF str # << >> /\ Head(str) \in Whitespace
    THEN TrimLeft(Tail(str))
    ELSE str

RECURSIVE TrimRight(_)
TrimRight(str) ==
    IF str # << >> /\ str[Len(str)] \in Whitespace
    THEN TrimRight(SubSeq(str, 1, Len(str) - 1))
    ELSE str

\* strings.TrimSpace
TrimSpace(str) == TrimRight(TrimLeft(str))

\* strings.Split(str, sep) for a separator of one character: the pieces
\* between the occurrences of sep, empty pieces included
RECURSIVE Split(_, _)
Split(str, sep) ==
    IF \A i \in DOMAIN str : str[i] # sep
    THEN <<str>>
    ELSE LET i == CHOOSE k \in DOMAIN str :
                    str[k] = sep /\ \A j \in 1..(k - 1) : str[j] # sep
         IN  <<SubSeq(str, 1, i - 1)>>
                \o Split(SubSeq(str, i + 1, Len(str)), sep)

UpperLetters ==
    <<"A", "B", "C", "D", "E", "F", "G", "H", "I", "J", "K", "L", "M", "N",
      "O", "P", "Q", "R", "S", "T", "U", "V", "W", "X", "Y", "Z">>
LowerLetters ==
    <<"a", "b", "c", "d", "e", "f", "g", "h", "i", "j", "k", "l", "m", "n",
      "o", "p", "q", "r", "s", "t", "u", "v", "w", "x", "y", "z">>

ToLowerChar(c) ==
    IF \E k \in DOMAIN UpperLetters : UpperLetters[k] = c
    THEN LowerLetters[CHOOSE k \in DOMAIN UpperLetters : UpperLetters[k] = c]
    ELSE c

\* strings.ToLower
RECURSIVE ToLower(_)
ToLower(str) ==
    IF str = << >>
    THEN << >>
    ELSE <<ToLowerChar(Head(str))>> \o ToLower(Tail(str))

\* the characters of the names the Accept... options store
Spell(name) ==
    CASE name = "sha1" -> <<"s", "h", "a", "1">>
      [] name = "sha256" -> <<"s", "h", "a", "2", "5", "6">>
      [] name = "none" -> <<"n", "o", "n", "e">>
      [] OTHER -> <<"?">>

xmidtHeader == "Xmidt-Signature"
webpaHeader == "X-Webpa-Signature"

\* a request's signature headers: the values of each, in order
NoHeaders == [xmidt |-> << >>, webpa |-> << >>]

\* the frame of a thread that has not called Tokenize: the request's
\* headers, the token and the error returned ("none" for nil), and the event
\* handed to dispatch
NoTokenizeEvent ==
    [Header |-> "", Algorithms |-> << >>, Algorithm |-> "", Err |-> "none"]
NotTokenized ==
    [r |-> NoHeaders, t |-> NoToken, err |-> "none",
     evnt |-> NoTokenizeEvent, sent |-> << >>, done |-> FALSE]

\* a registration as New sees it: the pointer may be nil, and Validate
\* looks at whether the registration is acceptable at all and whether it
\* sets Until
NilRegistration == [nil |-> TRUE, invalid |-> FALSE, until |-> FALSE]

\* what New returns in place of the engine when it fails
NoListener ==
    [nil |-> TRUE, registration |-> NilRegistration, webhookURL |-> << >>,
     interval |-> 0, acceptedSecrets |-> << >>, hashPreferences |-> << >>,
     hashes |-> {}, body |-> << >>, update |-> 0]

\* no New call yet
NotMade ==
    [r |-> NilRegistration, url |-> << >>, opts |-> << >>,
     l |-> NoListener, err |-> "none", done |-> FALSE]

\* a thread that is in no call on the registry: what it does (pc, op), the
\* listener it adds or cancels (e), its position in the list (at), the
\* number of its visit (d) and whether it called the handle from a callback
NoVisit ==
    [pc |-> "idle", op |-> "none", e |-> 0, at |-> 0, d |-> 0,
     inner |-> FALSE]

\* a registry nobody has subscribed to
InitRegistry ==
    /\ listeners = << >>
    /\ lock = [t \in Threads |-> 0]
    /\ visitor = [t \in Threads |-> NoVisit]
    /\ added = {}
    /\ gone = {}
    /\ dispatchNo = 0
    /\ subs = << >>
    /\ delivered = {}
    /\ cancels = 0

\* no Accept call yet
NoAccept == [called |-> FALSE, arg |-> << >>]

(***************************************************************************)
(* New: the state after construction.  use() has run once, so the update   *)
(* channel already holds a signal.                                         *)
(***************************************************************************)
InitEngine ==
    /\ mWriter = NoOne
    /\ wg = 0
    /\ shutdown = FALSE
    /\ ctx = [parent |-> "background", cancelled |-> FALSE]
    /\ upstreamCancelled = FALSE
    /\ update = 1
    /\ secret = InitialSecret
    /\ body = Marshal(InitialSecret)
    /\ pc = [p \in Procs |-> IF p \in Threads THEN "idle" ELSE "unborn"]
    /\ arg = [t \in Threads |-> NoSecret]
    /\ localShutdown = [t \in Threads |-> FALSE]
    /\ ticker = [id \in LoopIds |-> 0]
    /\ snap = [p \in Procs |-> Marshal(NoSecret)]
    /\ evnt = [p \in Procs |-> NoEvent]
    /\ ret = [t \in Threads |-> "none"]
    /\ log = << >>
    /\ ops = 0
    /\ ticks = 0
    /\ faults = 0
    /\ bodyVer = 1
    /\ snapVer = [p \in Procs |-> 0]
    /\ pendingVer = 0
    /\ cycle = [p \in Procs |-> 0]
    /\ dispatched = [p \in Procs |-> 0]
    /\ calls = 0
    /\ callSends = [t \in Threads |-> 0]
    /\ callSaw = [t \in Threads |-> NotCalled]
    /\ stopSaw = [t \in Threads |-> [id \in LoopIds |-> 0]]
    /\ stopWasSet = FALSE
    /\ stopsReturned = 0
    /\ loopsStarted = 0
    /\ authorize = [t \in Threads |-> NoCall]

\* an engine built with Once() or Interval(d), AcceptSHA1() and any URL
Init ==
    /\ InitEngine
    /\ tokenize = [t \in Threads |-> NotTokenized]
    /\ lastAccept = NoAccept
    /\ made = NotMade
    /\ InitRegistry
    /\ interval \in Intervals
    /\ webhookURL \in WebhookURLs
    /\ acceptedSecrets = << >>
    /\ hashPreferences = <<"sha1">>
    /\ hashes = {"sha1"}
    /\ optionSecrets = acceptedSecrets

(***************************************************************************)
(* Register.                                                               *)
(***************************************************************************)
AlwaysGiven(s) == TRUE
\* `if len(secret) != 0` of Register
SecretGiven(s) == s # NoSecret

NoSignal(ch) == ch
SendQueued(ch) == ch + 1
\* select { case l.update <- struct{}{}: default: } on a channel of capacity 1
SendNonBlocking(ch) == IF ch = 0 THEN 1 ELSE ch

useKeepsBody(s) ==
    /\ secret' = s
    /\ body' = body
    /\ update' = SendNonBlocking(update)

\* use(secret): the secret is stored in the registration, the body is
\* marshalled again and the loop is signalled without blocking
use(s) ==
    /\ secret' = s
    /\ body' = Marshal(s)
    /\ update' = SendNonBlocking(update)

\* l.m.Lock() at the head of Register(secret ...string), and l.use(secret[0])
\* when a secret is given
RegisterLock(t, s) ==
    /\ pc[t] = "idle"
    /\ ops < MaxOps
    /\ mWriter = NoOne
    /\ mWriter' = t
    /\ arg' = [arg EXCEPT ![t] = s]
    /\ pc' = [pc EXCEPT ![t] = "reg_check"]
    /\ ops' = ops + 1
    /\ callSends' = [callSends EXCEPT ![t] = 0]
    /\ callSaw' = [callSaw EXCEPT ![t] =
                      [idle |-> \A id \in LoopIds : ~Alive(id),
                       stopped |-> stopWasSet]]
    /\ IF SecretGiven(s)
       THEN /\ use(s)
            /\ bodyVer' = bodyVer + 1
            /\ pendingVer' = IF shutdown /\ ~Done(ctx)
                              THEN bodyVer + 1 ELSE pendingVer
       ELSE UNCHANGED <<secret, body, update, bodyVer, pendingVer>>
    /\ UNCHANGED <<interval, wg, shutdown, ctx, upstreamCancelled,
                   acceptedSecrets, hashPreferences, hashes>>
    /\ UNCHANGED <<localShutdown, ticker, snap, evnt, ret, log>>
    /\ UNCHANGED <<ticks, faults, snapVer, cycle, dispatched, calls, stopSaw,
                   stopWasSet, stopsReturned, loopsStarted>>
    /\ UNCHANGED callbacks
    /\ UNCHANGED extras
    /\ UNCHANGED registry

\* `if l.shutdown != nil { return nil }` and the deferred Unlock
RegisterAlreadyRunning(t) ==
    /\ pc[t] = "reg_check"
    /\ AlreadyRunning
    /\ ret' = [ret EXCEPT ![t] = "nil"]
    /\ mWriter' = NoOne
    /\ pc' = [pc EXCEPT ![t] = "idle"]
    /\ arg' = [arg EXCEPT ![t] = NoSecret]
    /\ calls' = calls + 1
    /\ callSaw' = [callSaw EXCEPT ![t] = NotCalled]
    /\ UNCHANGED <<interval, wg, shutdown, ctx, upstreamCancelled, update,
                   secret, body, acceptedSecrets, hashPreferences, hashes>>
    /\ UNCHANGED <<localShutdown, ticker, snap, evnt, log>>
    /\ UNCHANGED <<ops, ticks, faults, bodyVer, snapVer, pendingVer, cycle,
                   dispatched, callSends, stopSaw, stopWasSet, stopsReturned,
                   loopsStarted>>
    /\ UNCHANGED callbacks
    /\ UNCHANGED extras
    /\ UNCHANGED registry

\* `if l.interval == 0 { return l.register(true) }`: enter register with the
\* write lock held
RegisterOnce(t) ==
    /\ pc[t] = "reg_check"
    /\ ~AlreadyRunning
    /\ interval = 0
    /\ pc' = [pc EXCEPT ![t] = "snap"]
    /\ UNCHANGED engine
    /\ UNCHANGED <<arg, localShutdown, ticker, snap, evnt, ret, log>>
    /\ UNCHANGED history
    /\ UNCHANGED callbacks
    /\ UNCHANGED extras
    /\ UNCHANGED registry

\* l.ctx, l.shutdown = context.WithCancel(l.upstreamCtx); go l.run();
\* return nil and the deferred Unlock.  The new goroutine exists ("born") but
\* has not executed anything yet.
RegisterStart(t) ==
    /\ pc[t] = "reg_check"
    /\ ~AlreadyRunning
    /\ interval # 0
    /\ \E id \in LoopIds :
        /\ pc[id] = "unborn"
        /\ \A j \in LoopIds : j < id => pc[j] # "unborn"
        /\ pc' = [pc EXCEPT ![t] = "idle", ![id] = "born"]
    /\ ctx' = WithCancel
    /\ shutdown' = TRUE
    /\ ret' = [ret EXCEPT ![t] = "nil"]
    /\ mWriter' = NoOne
    /\ arg' = [arg EXCEPT ![t] = NoSecret]
    /\ calls' = calls + 1
    /\ callSaw' = [callSaw EXCEPT ![t] = NotCalled]
    /\ loopsStarted' = loopsStarted + 1
    /\ UNCHANGED <<interval, wg, upstreamCancelled, update, secret, body,
                   acceptedSecrets, hashPreferences, hashes>>
    /\ UNCHANGED <<localShutdown, ticker, snap, evnt, log>>
    /\ UNCHANGED <<ops, ticks, faults, bodyVer, snapVer, pendingVer, cycle,
                   dispatched, callSends, stopSaw, stopWasSet,
                   stopsReturned>>
    /\ UNCHANGED callbacks
    /\ UNCHANGED extras
    /\ UNCHANGED registry

RegisterResultDropped(e) == "nil"
\* `return l.register(true)`: Register returns what register returned, the
\* Err of the event it dispatched
RegisterResult(e) == e.err

\* the return of `return l.register(true)` and the deferred Unlock
RegisterReturn(t) ==
    /\ pc[t] = "reg_ret"
    /\ ret' = [ret EXCEPT ![t] = RegisterResult(evnt[t])]
    /\ evnt' = [evnt EXCEPT ![t] = NoEvent]
    /\ mWriter' = NoOne
    /\ pc' = [pc EXCEPT ![t] = "idle"]
    /\ arg' = [arg EXCEPT ![t] = NoSecret]
    /\ calls' = calls + 1
    /\ callSaw' = [callSaw EXCEPT ![t] = NotCalled]
    /\ UNCHANGED <<interval, wg, shutdown, ctx, upstreamCancelled, update,
                   secret, body, acceptedSecrets, hashPreferences, hashes>>
    /\ UNCHANGED <<localShutdown, ticker, snap, log>>
    /\ UNCHANGED <<ops, ticks, faults, bodyVer, snapVer, pendingVer, cycle,
                   dispatched, callSends, stopSaw, stopWasSet, stopsReturned,
                   loopsStarted>>
    /\ UNCHANGED callbacks
    /\ UNCHANGED extras
    /\ UNCHANGED registry

(***************************************************************************)
(* register(locked): the send-and-interpret cycle, run by a one-shot       *)
(* Register call (locked) or by the loop (not locked).                     *)
(***************************************************************************)
\* http.NewRequest(http.MethodPost, address, bytes.NewReader(body)) fails on
\* an address that does not parse
NewRequestFails(address) == address = BadURL

DecoratePastFailure(ds, e, failing) ==
    IF \E i \in DOMAIN ds : ds[i] \in failing
    THEN [e EXCEPT !.invoked = ds,
                   !.err = "ErrRegistrationNotAttempted",
                   !.failed = ds[CHOOSE i \in DOMAIN ds :
                                    /\ ds[i] \in failing
                                    /\ \A j \in 1..(i - 1) :
                                          ds[j] \notin failing]]
    ELSE [e EXCEPT !.invoked = ds]
\* for _, decorator := range l.reqDecorators: each is invoked in turn, and the
\* first whose Decorate returns an error ends the cycle as "registration not
\* attempted".  failing is the set of decorators that return an error when
\* invoked in this cycle.
RECURSIVE Decorate(_, _, _)
Decorate(ds, e, failing) ==
    IF ds = << >>
    THEN e
    ELSE LET called == [e EXCEPT !.invoked = Append(@, Head(ds))]
         IN  IF Head(ds) \in failing
             THEN [called EXCEPT !.err = "ErrRegistrationNotAttempted",
                                 !.failed = Head(ds)]
             ELSE Decorate(Tail(ds), called, failing)

\* address := l.webhookURL; body := l.body, under RLock unless locked; then
\* http.NewRequest and the decorators, outside the lock: either all succeed
\* and the request is ready to be sent (evnt.At = time.Now()), or a step
\* fails and the cycle ends as "registration not attempted"
Prepare(p) ==
    /\ pc[p] = "snap"
    /\ p \in LoopIds => mWriter = NoOne
    /\ snap' = [snap EXCEPT ![p] = body]
    /\ snapVer' = [snapVer EXCEPT ![p] = bodyVer]
    /\ cycle' = [cycle EXCEPT ![p] = @ + 1]
    /\ \E failing \in SUBSET {reqDecorators[i] : i \in DOMAIN reqDecorators} :
        LET e == IF NewRequestFails(webhookURL)
                 THEN [NoEvent EXCEPT !.err = "ErrRegistrationNotAttempted",
                                      !.failed = "NewRequest"]
                 ELSE Decorate(reqDecorators, NoEvent, failing)
        IN  IF e.err = "nil"
            THEN /\ pc' = [pc EXCEPT ![p] = "inflight"]
                 /\ evnt' = [evnt EXCEPT ![p] = [e EXCEPT !.at = Now]]
                 /\ faults' = faults
            ELSE /\ faults < MaxFaults
                 /\ pc' = [pc EXCEPT ![p] = "dispatch"]
                 /\ evnt' = [evnt EXCEPT ![p] = e]
                 /\ faults' = faults + 1
    /\ UNCHANGED engine
    /\ UNCHANGED <<arg, localShutdown, ticker, ret, log>>
    /\ UNCHANGED <<ops, ticks, bodyVer, pendingVer, dispatched, calls,
                   callSends, callSaw, stopSaw, stopWasSet, stopsReturned,
                   loopsStarted>>
    /\ UNCHANGED callbacks
    /\ UNCHANGED extras
    /\ UNCHANGED registry

\* resp.StatusCode of an answer
StatusCode(r) ==
    CASE r = "200" -> 200
      [] r = "204" -> 204
      [] r = "400" -> 400
      [] OTHER -> 0

\* io.ReadAll(resp.Body): every answer carries a body that names it
ResponseBody(r) == <<"body of", r>>

InterpretAny2xx(r, e) ==
    LET done == [e EXCEPT !.sent = TRUE, !.resp = r]
    IN  CASE r = "transport error" ->
                [done EXCEPT !.err = "ErrRegistrationFailed"]
          [] r \in {"200", "204"} ->
                [done EXCEPT !.status = StatusCode(r),
                             !.until = e.at + registrationDuration]
          [] OTHER ->
                [done EXCEPT !.err = "ErrRegistrationFailed",
                             !.status = StatusCode(r),
                             !.body = ResponseBody(r)]
\* the event register builds from the answer of l.client.Do(req): a transport
\* error, http.StatusOK with Until = At + Duration, or any other status with
\* the response body
Interpret(r, e) ==
    LET done == [e EXCEPT !.sent = TRUE, !.resp = r]
    IN  CASE r = "transport error" ->
                [done EXCEPT !.err = "ErrRegistrationFailed"]
          [] r = "200" ->
                [done EXCEPT !.status = 200,
                             !.until = e.at + registrationDuration]
          [] OTHER ->
                [done EXCEPT !.err = "ErrRegistrationFailed",
                             !.status = StatusCode(r),
                             !.body = ResponseBody(r)]

\* resp, err := l.client.Do(req) returns
HttpDo(p) ==
    /\ pc[p] = "inflight"
    /\ \E r \in Responses :
        /\ r # "200" => faults < MaxFaults
        /\ faults' = IF r # "200" THEN faults + 1 ELSE faults
        /\ evnt' = [evnt EXCEPT ![p] = Interpret(r, evnt[p])]
    /\ pc' = [pc EXCEPT ![p] = "dispatch"]
    /\ UNCHANGED engine
    /\ UNCHANGED <<arg, localShutdown, ticker, snap, ret, log>>
    /\ UNCHANGED <<ops, ticks, bodyVer, snapVer, pendingVer, cycle,
                   dispatched, calls, callSends, callSaw, stopSaw,
                   stopWasSet, stopsReturned, loopsStarted>>
    /\ UNCHANGED callbacks
    /\ UNCHANGED extras
    /\ UNCHANGED registry

VisitFirst(ls) == IF ls = << >> THEN << >> ELSE <<Head(ls)>>
\* l.registrationListeners.visit(f): f is applied to each listener of the
\* list, front to back; the result is the listeners it was applied to
RECURSIVE visit(_)
visit(ls) == IF ls = << >> THEN << >> ELSE <<Head(ls)>> \o visit(Tail(ls))

AfterCycleEndsOnError(p, e) ==
    IF p \in Threads THEN "reg_ret"
    ELSE IF e.err = "nil" THEN "select" ELSE "done"
\* where a process goes on after register: a Register call to its return,
\* the loop, which drops the result (`_ = l.register(false)`), to its select
AfterCycle(p, e) == IF p \in Threads THEN "reg_ret" ELSE "select"

\* return l.dispatch(evnt): the registration listeners are visited.  The loop
\* drops the result (`_ = l.register(false)`) and goes on to its select.
Dispatch(p) ==
    /\ pc[p] = "dispatch"
    /\ log' = Append(log, [by |-> p, err |-> evnt[p].err,
                           status |-> evnt[p].status,
                           to |-> visit(registrationListeners)])
    /\ dispatched' = [dispatched EXCEPT ![p] = @ + 1]
    /\ callSends' = IF p \in Threads
                    THEN [callSends EXCEPT ![p] = @ + 1] ELSE callSends
    /\ callSaw' = callSaw
    /\ pc' = [pc EXCEPT ![p] = AfterCycle(p, evnt[p])]
    /\ evnt' = IF p \in Threads THEN evnt ELSE [evnt EXCEPT ![p] = NoEvent]
    /\ snap' = [snap EXCEPT ![p] = Marshal(NoSecret)]
    /\ UNCHANGED engine
    /\ UNCHANGED <<arg, localShutdown, ticker, ret>>
    /\ UNCHANGED <<ops, ticks, faults, bodyVer, snapVer, pendingVer, cycle,
                   calls, stopSaw, stopWasSet, stopsReturned, loopsStarted>>
    /\ UNCHANGED callbacks
    /\ UNCHANGED extras
    /\ UNCHANGED registry

(***************************************************************************)
(* run: the background loop.                                               *)
(***************************************************************************)
WgAddNothing(n) == n
\* l.wg.Add(1)
WgAdd(n) == n + 1

\* l.wg.Add(1); ticker := time.NewTicker(l.interval), the first steps of the
\* new goroutine
LoopStart(id) ==
    /\ pc[id] = "born"
    /\ wg' = WgAdd(wg)
    /\ ticker' = [ticker EXCEPT ![id] = 0]
    /\ pc' = [pc EXCEPT ![id] = "snap"]
    /\ UNCHANGED <<interval, mWriter, shutdown, ctx, upstreamCancelled,
                   update, secret, body, acceptedSecrets, hashPreferences,
                   hashes>>
    /\ UNCHANGED <<arg, localShutdown, snap, evnt, ret, log>>
    /\ UNCHANGED history
    /\ UNCHANGED callbacks
    /\ UNCHANGED extras
    /\ UNCHANGED registry

\* the runtime delivers a tick on ticker.C (capacity 1, dropped when full)
Tick(id) ==
    /\ pc[id] \notin {"unborn", "born", "done"}
    /\ ticker[id] = 0
    /\ ticks < MaxTicks
    /\ ticker' = [ticker EXCEPT ![id] = 1]
    /\ ticks' = ticks + 1
    /\ UNCHANGED engine
    /\ UNCHANGED <<pc, arg, localShutdown, snap, evnt, ret, log>>
    /\ UNCHANGED <<ops, faults, bodyVer, snapVer, pendingVer, cycle,
                   dispatched, calls, callSends, callSaw, stopSaw,
                   stopWasSet, stopsReturned, loopsStarted>>
    /\ UNCHANGED callbacks
    /\ UNCHANGED extras
    /\ UNCHANGED registry

\* select: case <-l.ctx.Done(): return, with the deferred ticker.Stop() and
\* l.wg.Done().  select picks any ready case, so this competes with the two
\* cases below.
LoopExit(id) ==
    /\ pc[id] = "select"
    /\ Done(ctx)
    /\ wg' = wg - 1
    /\ ticker' = [ticker EXCEPT ![id] = 0]
    /\ pc' = [pc EXCEPT ![id] = "done"]
    /\ UNCHANGED <<interval, mWriter, shutdown, ctx, upstreamCancelled,
                   update, secret, body, acceptedSecrets, hashPreferences,
                   hashes>>
    /\ UNCHANGED <<arg, localShutdown, snap, evnt, ret, log>>
    /\ UNCHANGED history
    /\ UNCHANGED callbacks
    /\ UNCHANGED extras
    /\ UNCHANGED registry

\* select: case <-ticker.C:
LoopTick(id) ==
    /\ pc[id] = "select"
    /\ ticker[id] = 1
    /\ ticker' = [ticker EXCEPT ![id] = 0]
    /\ pc' = [pc EXCEPT ![id] = "snap"]
    /\ UNCHANGED engine
    /\ UNCHANGED <<arg, localShutdown, snap, evnt, ret, log>>
    /\ UNCHANGED history
    /\ UNCHANGED callbacks
    /\ UNCHANGED extras
    /\ UNCHANGED registry

\* select: case <-l.update:
LoopUpdate(id) ==
    /\ pc[id] = "select"
    /\ update = 1
    /\ update' = 0
    /\ pc' = [pc EXCEPT ![id] = "snap"]
    /\ UNCHANGED <<interval, mWriter, wg, shutdown, ctx, upstreamCancelled,
                   secret, body, acceptedSecrets, hashPreferences, hashes>>
    /\ UNCHANGED <<arg, localShutdown, ticker, snap, evnt, ret, log>>
    /\ UNCHANGED history
    /\ UNCHANGED callbacks
    /\ UNCHANGED extras
    /\ UNCHANGED registry

(***************************************************************************)
(* Stop.                                                                   *)
(***************************************************************************)
\* l.m.Lock(); shutdown := l.shutdown; l.m.Unlock();
\* if shutdown != nil { shutdown() }
StopBegin(t) ==
    /\ pc[t] = "idle"
    /\ ops < MaxOps
    /\ mWriter = NoOne
    /\ localShutdown' = [localShutdown EXCEPT ![t] = shutdown]
    /\ ctx' = IF shutdown THEN Cancel(ctx) ELSE ctx
    /\ stopSaw' = [stopSaw EXCEPT ![t] = [id \in LoopIds |-> CycleNo(id)]]
    /\ pc' = [pc EXCEPT ![t] = "stop_wait"]
    /\ ops' = ops + 1
    /\ UNCHANGED <<interval, mWriter, wg, shutdown, upstreamCancelled,
                   update, secret, body, acceptedSecrets, hashPreferences,
                   hashes>>
    /\ UNCHANGED <<arg, ticker, snap, evnt, ret, log>>
    /\ UNCHANGED <<ticks, faults, bodyVer, snapVer, pendingVer, cycle,
                   dispatched, calls, callSends, callSaw, stopWasSet,
                   stopsReturned, loopsStarted>>
    /\ UNCHANGED callbacks
    /\ UNCHANGED extras
    /\ UNCHANGED registry

WaitNever == TRUE
\* l.wg.Wait() may return: the counter is zero
WaitReady == wg = 0

\* l.wg.Wait() and the return of Stop
StopWait(t) ==
    /\ pc[t] = "stop_wait"
    /\ WaitReady
    /\ pc' = [pc EXCEPT ![t] = "idle"]
    /\ stopWasSet' = (stopWasSet \/ localShutdown[t])
    /\ stopsReturned' = stopsReturned + 1
    /\ localShutdown' = [localShutdown EXCEPT ![t] = FALSE]
    /\ UNCHANGED engine
    /\ UNCHANGED <<arg, ticker, snap, evnt, ret, log>>
    /\ UNCHANGED <<ops, ticks, faults, bodyVer, snapVer, pendingVer, cycle,
                   dispatched, calls, callSends, callSaw, stopSaw,
                   loopsStarted>>
    /\ UNCHANGED callbacks
    /\ UNCHANGED extras
    /\ UNCHANGED registry

(***************************************************************************)
(* Accept and the environment.                                             *)
(***************************************************************************)
\* make([]string, len(secrets)) and copy: a new list with the argument's
\* entries
CopyAppended(secrets) == acceptedSecrets \o secrets
Copy(secrets) == [i \in 1..Len(secrets) |-> secrets[i]]

\* Accept(secrets): the list is replaced by a copy of the argument
Accept(t, secs) ==
    /\ pc[t] = "idle"
    /\ ops < MaxOps
    /\ mWriter = NoOne
    /\ acceptedSecrets' = Copy(secs)
    /\ lastAccept' = [called |-> TRUE, arg |-> secs]
    /\ ops' = ops + 1
    /\ UNCHANGED <<interval, mWriter, wg, shutdown, ctx, upstreamCancelled,
                   update, secret, body, hashPreferences, hashes>>
    /\ UNCHANGED procs
    /\ UNCHANGED <<ticks, faults, bodyVer, snapVer, pendingVer, cycle,
                   dispatched, calls, callSends, callSaw, stopSaw,
                   stopWasSet, stopsReturned, loopsStarted>>
    /\ UNCHANGED callbacks
    /\ UNCHANGED <<tokenize, optionSecrets, made>>
    /\ UNCHANGED registry

\* the owner of the context given to the Context option cancels it
CancelUpstream ==
    /\ ~upstreamCancelled
    /\ upstreamCancelled' = TRUE
    /\ UNCHANGED <<interval, mWriter, wg, shutdown, ctx, update, secret,
                   body, acceptedSecrets, hashPreferences, hashes>>
    /\ UNCHANGED procs
    /\ UNCHANGED history
    /\ UNCHANGED callbacks
    /\ UNCHANGED extras
    /\ UNCHANGED registry

AcceptArgs == {<<"s1">>}

(***************************************************************************)
(* dispatch for Tokenize and Authorize.                                    *)
(***************************************************************************)
dispatchSilent(frame, e, ls) == [frame EXCEPT !.err = e.Err]
\* return l.dispatch(evnt): the listeners of the event's kind are visited
\* with the event, and evnt.Err is what the call returns
dispatch(frame, e, ls) ==
    [frame EXCEPT !.err = e.Err,
                  !.sent = Append(@, [evnt |-> e, to |-> visit(ls)])]

(***************************************************************************)
(* Authorize.                                                              *)
(***************************************************************************)
ReadAllKeepsPosition(r) ==
    [msg |-> Remaining(r), err |-> "nil",
     body |-> [r EXCEPT !.pos = Len(r.data)]]
\* msg, err = io.ReadAll(r.Body); r.Body.Close(); and on success
\* r.Body = io.NopCloser(bytes.NewReader(msg)): the bytes read, the error,
\* and the body the request is left with
ReadAll(r) ==
    IF r.broken
    THEN [msg |-> << >>, err |-> "read error",
          body |-> [r EXCEPT !.pos = Len(r.data)]]
    ELSE [msg |-> Remaining(r), err |-> "nil", body |-> Reader(Remaining(r))]

\* Authorize(r, t) up to the call of getHashes: the nil check of the token,
\* the hex decoding of its principal and the reading of the body, each of
\* which may end the call
AuthorizeCall(th, req, tok) ==
    /\ pc[th] = "idle"
    /\ ops < MaxOps
    /\ ops' = ops + 1
    /\ LET frame == [NoCall EXCEPT !.t = tok, !.r = req,
                                   !.carried = Remaining(req)]
           decoded == DecodeString(tok.principal)
           read == ReadAll(req)
       IN  IF tok = NoToken
           THEN /\ authorize' = [authorize EXCEPT ![th] =
                        dispatch(frame,
                                 [Algorithm |-> "", Err |-> "ErrNoToken"],
                                 authorizeListeners)]
                /\ pc' = pc
           ELSE IF decoded.err # "nil"
           THEN /\ authorize' = [authorize EXCEPT ![th] =
                        dispatch(frame,
                                 [Algorithm |-> "",
                                  Err |-> "ErrInvalidSignature"],
                                 authorizeListeners)]
                /\ pc' = pc
           ELSE IF req.nil
           THEN /\ authorize' = [authorize EXCEPT ![th] =
                        [frame EXCEPT !.secret = decoded.bytes,
                                      !.err = "pending"]]
                /\ pc' = [pc EXCEPT ![th] = "auth_hashes"]
           ELSE IF read.err # "nil"
           THEN /\ authorize' = [authorize EXCEPT ![th] =
                        dispatch([frame EXCEPT !.secret = decoded.bytes,
                                               !.r = read.body],
                                 [Algorithm |-> "",
                                  Err |-> "ErrUnableToReadBody"],
                                 authorizeListeners)]
                /\ pc' = pc
           ELSE /\ authorize' = [authorize EXCEPT ![th] =
                        [frame EXCEPT !.secret = decoded.bytes,
                                      !.r = read.body,
                                      !.msg = read.msg,
                                      !.err = "pending"]]
                /\ pc' = [pc EXCEPT ![th] = "auth_hashes"]
    /\ UNCHANGED engine
    /\ UNCHANGED <<arg, localShutdown, ticker, snap, evnt, ret, log>>
    /\ UNCHANGED <<ticks, faults, bodyVer, snapVer, pendingVer, cycle,
                   dispatched, calls, callSends, callSaw, stopSaw,
                   stopWasSet, stopsReturned, loopsStarted>>
    /\ UNCHANGED webhookURL
    /\ UNCHANGED extras
    /\ UNCHANGED registry

\* hmac.New(h, []byte(secret)): the HMAC object, or a panic when h is a nil
\* func, which New calls at once
hmacNew(fn, key) == [fn |-> fn, key |-> key, panics |-> fn = "nil"]

getHashesFirstOnly(which) ==
    IF which \notin hashes
    THEN [err |-> "ErrNotAcceptedHash", hashes |-> << >>]
    ELSE IF HashFn(which) = "nil" /\ acceptedSecrets # << >>
    THEN [err |-> "panic", hashes |-> << >>]
    ELSE [err |-> "nil",
          hashes |-> [i \in DOMAIN acceptedSecrets \cap {1} |->
                        hmacNew(HashFn(which), acceptedSecrets[i])]]
\* getHashes(which), under the read lock: ErrNotAcceptedHash when the name
\* is no key of l.hashes, otherwise one HMAC object for every accepted
\* secret, in the order of the list
getHashes(which) ==
    IF which \notin hashes
    THEN [err |-> "ErrNotAcceptedHash", hashes |-> << >>]
    ELSE LET hs == [i \in DOMAIN acceptedSecrets |->
                        hmacNew(HashFn(which), acceptedSecrets[i])]
         IN  IF \E i \in DOMAIN hs : hs[i].panics
             THEN [err |-> "panic", hashes |-> << >>]
             ELSE [err |-> "nil", hashes |-> hs]

\* hashes, err := l.getHashes(evnt.Algorithm) of Authorize
AuthorizeGetHashes(th) ==
    /\ pc[th] = "auth_hashes"
    /\ mWriter = NoOne
    /\ LET got == getHashes(authorize[th].t.alg)
           seen == [authorize[th] EXCEPT !.accepted = acceptedSecrets,
                                         !.snapped = TRUE]
       IN  IF got.err = "panic"
           THEN /\ authorize' = [authorize EXCEPT ![th] =
                        [seen EXCEPT !.err = got.err]]
                /\ pc' = [pc EXCEPT ![th] = "idle"]
           ELSE IF got.err # "nil"
           THEN /\ authorize' = [authorize EXCEPT ![th] =
                        dispatch(seen,
                                 [Algorithm |-> authorize[th].t.alg,
                                  Err |-> got.err],
                                 authorizeListeners)]
                /\ pc' = [pc EXCEPT ![th] = "idle"]
           ELSE /\ authorize' = [authorize EXCEPT ![th] =
                        [seen EXCEPT !.hashes = got.hashes]]
                /\ pc' = [pc EXCEPT ![th] = "auth_compare"]
    /\ UNCHANGED engine
    /\ UNCHANGED <<arg, localShutdown, ticker, snap, evnt, ret, log>>
    /\ UNCHANGED history
    /\ UNCHANGED webhookURL
    /\ UNCHANGED extras
    /\ UNCHANGED registry

\* for _, h := range hashes { h.Write(msg); if hmac.Equal(h.Sum(nil), secret)
\* ... }: some HMAC object's digest of the message equals the signature
Matches(hs, msg, sig) ==
    \E i \in DOMAIN hs : Equal(Sum(hs[i].fn, hs[i].key, msg), sig)

\* the loop over the hashes and the return of Authorize: nil on the first
\* match, ErrInvalidSignature when there is none
AuthorizeCompare(th) ==
    /\ pc[th] = "auth_compare"
    /\ authorize' = [authorize EXCEPT ![th] =
            dispatch(authorize[th],
                     [Algorithm |-> authorize[th].t.alg,
                      Err |-> IF Matches(authorize[th].hashes,
                                         authorize[th].msg,
                                         authorize[th].secret)
                              THEN "nil" ELSE "ErrInvalidSignature"],
                     authorizeListeners)]
    /\ pc' = [pc EXCEPT ![th] = "idle"]
    /\ UNCHANGED engine
    /\ UNCHANGED <<arg, localShutdown, ticker, snap, evnt, ret, log>>
    /\ UNCHANGED history
    /\ UNCHANGED webhookURL
    /\ UNCHANGED extras
    /\ UNCHANGED registry

Next ==
    \/ \E t \in Threads, s \in Secrets \cup {NoSecret} : RegisterLock(t, s)
    \/ \E t \in Threads : RegisterAlreadyRunning(t)
    \/ \E t \in Threads : RegisterOnce(t)
    \/ \E t \in Threads : RegisterStart(t)
    \/ \E t \in Threads : RegisterReturn(t)
    \/ \E p \in Procs : Prepare(p)
    \/ \E p \in Procs : HttpDo(p)
    \/ \E p \in Procs : Dispatch(p)
    \/ \E id \in LoopIds : LoopStart(id)
    \/ \E id \in LoopIds : Tick(id)
    \/ \E id \in LoopIds : LoopExit(id)
    \/ \E id \in LoopIds : LoopTick(id)
    \/ \E id \in LoopIds : LoopUpdate(id)
    \/ \E t \in Threads : StopBegin(t)
    \/ \E t \in Threads : StopWait(t)
    \/ \E t \in Threads, secs \in AcceptArgs : Accept(t, secs)
    \/ CancelUpstream

Spec == Init /\ [][Next]_vars

TypeOK ==
    /\ interval \in Intervals
    /\ mWriter \in Threads \cup {NoOne}
    /\ wg \in 0..MaxLoops
    /\ update \in 0..1
    /\ shutdown \in BOOLEAN

(***************************************************************************)
(* Fairness: the Go scheduler runs every goroutine that can proceed and an *)
(* HTTP exchange completes, so as long as some goroutine can take a step   *)
(* of a call or of the loop, one is taken.  Nothing is assumed about the   *)
(* ticker, the parent context or callers starting new calls.               *)
(***************************************************************************)
Progress ==
    \/ \E t \in Threads : RegisterAlreadyRunning(t)
    \/ \E t \in Threads : RegisterOnce(t)
    \/ \E t \in Threads : RegisterStart(t)
    \/ \E t \in Threads : RegisterReturn(t)
    \/ \E t \in Threads : StopWait(t)
    \/ \E p \in Procs : Prepare(p)
    \/ \E p \in Procs : HttpDo(p)
    \/ \E p \in Procs : Dispatch(p)
    \/ \E id \in LoopIds : LoopStart(id)
    \/ \E id \in LoopIds : LoopExit(id)
    \/ \E id \in LoopIds : LoopTick(id)
    \/ \E id \in LoopIds : LoopUpdate(id)

Fairness == WF_vars(Progress)

\* The liveness properties are about the loop of an interval-mode engine
\* against its caller: they are checked for an engine built with an interval
\* and one caller thread, which leaves out the one-shot path and Accept.
LiveThreads == {MaxLoops + 1}

LiveInit == Init /\ interval # 0 /\ ~NewRequestFails(webhookURL)

LiveNext ==
    \/ \E t \in LiveThreads, s \in Secrets \cup {NoSecret} : RegisterLock(t, s)
    \/ \E t \in LiveThreads : RegisterAlreadyRunning(t)
    \/ \E t \in LiveThreads : RegisterStart(t)
    \/ \E id \in LoopIds : Prepare(id)
    \/ \E id \in LoopIds : HttpDo(id)
    \/ \E id \in LoopIds : Dispatch(id)
    \/ \E id \in LoopIds : LoopStart(id)
    \/ \E id \in LoopIds : Tick(id)
    \/ \E id \in LoopIds : LoopExit(id)
    \/ \E id \in LoopIds : LoopTick(id)
    \/ \E id \in LoopIds : LoopUpdate(id)
    \/ \E t \in LiveThreads : StopBegin(t)
    \/ \E t \in LiveThreads : StopWait(t)
    \/ CancelUpstream

FairSpec == LiveInit /\ [][LiveNext]_vars /\ Fairness

(***************************************************************************)
(* The callback validator: an engine built with some Accept... options and *)
(* AcceptedSecrets, one thread that calls Authorize and one that calls     *)
(* Accept while it does.                                                   *)
(***************************************************************************)
\* the hash options New is given, in order
HashOptions ==
    {<<"sha1">>, <<"sha1", "sha256">>, <<"none">>, <<"none", "sha1">>}
\* the secrets of the AcceptedSecrets option and of Accept
SecretLists == {<< >>, <<"s1">>, <<"s2", "s1">>}
\* the secrets a sender of callbacks may sign with: the payload's own and
\* two others
Signers == {InitialSecret, "s1", "s2"}
Messages == {<< >>, <<102>>}
\* the algorithms a token may name
TokenAlgs == {"sha1", "sha256", "none"}

\* the principal a sender computes for a message: the hex of the HMAC, or
\* nothing when no hash is used
Sign(alg, key, m) ==
    IF alg = "none" THEN << >> ELSE EncodeToString(Sum(alg, key, m))

\* the tokens Authorize is given: none, one signed by some sender for some
\* message, or one with a principal that is odd, no hex, or a wrong digest
Tokens ==
    {NoToken}
    \cup {[alg |-> a, principal |-> Sign(a, k, m)] :
            a \in TokenAlgs, k \in Signers, m \in Messages}
    \cup [alg : TokenAlgs, principal : {<<"f">>, <<"z", "z">>, <<"0", "0">>}]
Requests ==
    {NoBody, BrokenReader(<<102>>)} \cup {Reader(m) : m \in Messages}

AuthThread == MaxLoops + 1
AcceptThread == MaxLoops + 2

AuthInit ==
    /\ InitEngine
    /\ tokenize = [t \in Threads |-> NotTokenized]
    /\ lastAccept = NoAccept
    /\ made = NotMade
    /\ InitRegistry
    /\ interval = 0
    /\ webhookURL \in WebhookURLs \ {BadURL}
    /\ hashPreferences \in HashOptions
    /\ hashes = {hashPreferences[i] : i \in DOMAIN hashPreferences}
    /\ acceptedSecrets \in SecretLists
    /\ optionSecrets = acceptedSecrets

AuthNext ==
    \/ \E req \in Requests, tok \in Tokens : AuthorizeCall(AuthThread, req, tok)
    \/ AuthorizeGetHashes(AuthThread)
    \/ AuthorizeCompare(AuthThread)
    \/ \E secs \in SecretLists : Accept(AcceptThread, secs)

AuthSpec == AuthInit /\ [][AuthNext]_vars

(***************************************************************************)
(* Tokenize: from the signature headers of a request to a token.           *)
(***************************************************************************)
\* the header Tokenize consults: X-Webpa-Signature only when the request
\* has no Xmidt-Signature value at all
ConsultsLegacyWhenBlank(r) ==
    \A i \in DOMAIN r.xmidt : TrimSpace(r.xmidt[i]) = << >>
ConsultsLegacy(r) == Len(r.xmidt) = 0

Headers(r) == IF ConsultsLegacy(r) THEN r.webpa ELSE r.xmidt

HeaderName(r) ==
    CASE Len(Headers(r)) = 0 -> ""
      [] ConsultsLegacy(r) -> webpaHeader
      [] OTHER -> xmidtHeader

\* choices[alg] = val
Put(choices, alg, val) ==
    [k \in DOMAIN choices \cup {alg} |-> IF k = alg THEN val ELSE choices[k]]

\* len(parts) != 2
SplitLenient(parts) == Len(parts) < 2
BadSplit(parts) == Len(parts) # 2

\* the loop over the header values: blank values are skipped, a value that
\* is not alg=val with both parts non-empty ends the call, every other one
\* is entered into choices and appended to list
RECURSIVE ParseHeaders(_, _, _)
ParseHeaders(headers, choices, list) ==
    IF headers = << >>
    THEN [err |-> "none", choices |-> choices, list |-> list]
    ELSE LET header == TrimSpace(Head(headers))
             parts == Split(header, "=")
             alg == ToLower(TrimSpace(parts[1]))
             val == TrimSpace(parts[2])
             failed == [err |-> "ErrInvalidHeaderFormat",
                        choices |-> choices, list |-> list]
         IN  IF header = << >>
             THEN ParseHeaders(Tail(headers), choices, list)
             ELSE IF BadSplit(parts)
             THEN failed
             ELSE IF alg = << >> \/ val = << >>
             THEN failed
             ELSE ParseHeaders(Tail(headers), Put(choices, alg, val),
                               Append(list, alg))

\* best: the first of the preferences that is among the choices
RECURSIVE bestInRequestOrder(_, _)
bestInRequestOrder(prefs, choices) ==
    IF choices = << >>
    THEN ""
    ELSE IF \E i \in DOMAIN prefs : Spell(prefs[i]) = Head(choices)
    THEN CHOOSE w \in {prefs[i] : i \in DOMAIN prefs} :
            Spell(w) = Head(choices)
    ELSE bestInRequestOrder(prefs, Tail(choices))

RECURSIVE bestOf(_, _)
bestOf(prefs, choices) ==
    IF prefs = << >>
    THEN ""
    ELSE IF \E i \in DOMAIN choices : choices[i] = Spell(Head(prefs))
    THEN Head(prefs)
    ELSE bestOf(Tail(prefs), choices)

best(choices) == bestOf(hashPreferences, choices)

\* list before the loop: "none" is always offered
NoOffer == << >>
NoneOffer == <<Spell("none")>>

\* Tokenize as a function of the request: the token, the error and the
\* event dispatched
Tokenize(r) ==
    LET parsed == ParseHeaders(Headers(r),
                               [k \in {Spell("none")} |-> << >>],
                               NoneOffer)
        want == best(parsed.list)
        ev == [NoTokenizeEvent EXCEPT !.Header = HeaderName(r)]
        failed(e) ==
            dispatch([t |-> NoToken, err |-> "none", evnt |-> e,
                      sent |-> << >>], e, tokenizeListeners)
    IN  IF parsed.err # "none"
        THEN failed([ev EXCEPT !.Err = parsed.err])
        ELSE IF want = ""
        THEN failed([ev EXCEPT !.Algorithms = parsed.list,
                               !.Err = "ErrAlgorithmNotFound"])
        ELSE LET e == [ev EXCEPT !.Algorithms = parsed.list,
                                 !.Algorithm = want]
             IN  dispatch([t |-> [alg |-> want,
                                  principal |-> parsed.choices[Spell(want)]],
                           err |-> "none", evnt |-> e, sent |-> << >>],
                          e, tokenizeListeners)

\* a call of Tokenize by thread th on the request it holds; best reads
\* hashPreferences under the read lock
TokenizeCall(th) ==
    LET result == Tokenize(tokenize[th].r)
    IN  /\ ~tokenize[th].done
        /\ result.err # "ErrInvalidHeaderFormat" => mWriter = NoOne
        /\ tokenize' = [tokenize EXCEPT ![th] =
                [r |-> tokenize[th].r, t |-> result.t, err |-> result.err,
                 evnt |-> result.evnt, sent |-> result.sent, done |-> TRUE]]
        /\ UNCHANGED <<engine, procs, history, callbacks>>
        /\ UNCHANGED <<lastAccept, optionSecrets, made>>
        /\ UNCHANGED registry

\* the values a signature header may carry: well-formed offers, with blanks
\* and capitals, an offer named none, an unknown algorithm, and malformed
\* and blank ones
HeaderValues ==
    {Spell("sha1") \o <<"=", "a", "b">>,
     <<" ", "S", "H", "A", "1", " ", "=", " ", "c", "d", " ">>,
     Spell("sha256") \o <<"=", "e", "f">>,
     Spell("none") \o <<"=", "f", "f">>,
     <<"m", "d", "5", "=", "0", "0">>,
     Spell("sha1"),
     Spell("sha1") \o <<"=", " ">>,
     <<"=", "a", "b">>,
     Spell("sha1") \o <<"=", "a", "b", "=", "c", "d">>,
     <<" ">>}
LegacyValues == {Spell("sha256") \o <<"=", "e", "e">>, <<"f", "o", "o">>}
MaxValues == 2

SeqsUpTo(S, n) == UNION {[1..k -> S] : k \in 0..n}

TokenizeRequests ==
    [xmidt : SeqsUpTo(HeaderValues, MaxValues),
     webpa : SeqsUpTo(LegacyValues, 1)]

TokenizeOptions ==
    HashOptions \cup {<<"sha256", "sha1">>, <<"sha1", "none">>}

TokThread == MaxLoops + 1

TokInit ==
    /\ InitEngine
    /\ interval = 0
    /\ webhookURL \in WebhookURLs \ {BadURL}
    /\ hashPreferences \in TokenizeOptions
    /\ hashes = {hashPreferences[i] : i \in DOMAIN hashPreferences}
    /\ acceptedSecrets = << >>
    /\ \E r \in TokenizeRequests :
        tokenize = [t \in Threads |->
            IF t = TokThread
            THEN [NotTokenized EXCEPT !.r = r]
            ELSE NotTokenized]
    /\ lastAccept = NoAccept
    /\ made = NotMade
    /\ InitRegistry
    /\ optionSecrets = acceptedSecrets

TokNext == TokenizeCall(TokThread)

TokSpec == TokInit /\ [][TokNext]_vars

(***************************************************************************)
(* A callback handler: one thread that calls Tokenize on the request it    *)
(* received and then Authorize, on an engine with subscribed listeners.    *)
(***************************************************************************)
\* requests with no signature header, a configured and an unknown offer, a
\* malformed value and a legacy header only
CallRequests ==
    {r \in TokenizeRequests :
        /\ Len(r.xmidt) <= 1
        /\ \A i \in DOMAIN r.xmidt :
            r.xmidt[i] \in {Spell("sha1") \o <<"=", "a", "b">>,
                            <<"m", "d", "5", "=", "0", "0">>, Spell("sha1")}
        /\ Len(r.xmidt) = 1 => r.webpa = << >>}

CallInit ==
    /\ InitEngine
    /\ interval = 0
    /\ webhookURL \in WebhookURLs \ {BadURL}
    /\ hashPreferences \in HashOptions
    /\ hashes = {hashPreferences[i] : i \in DOMAIN hashPreferences}
    /\ acceptedSecrets \in SecretLists
    /\ \E r \in CallRequests :
        tokenize = [t \in Threads |->
            IF t = AuthThread
            THEN [NotTokenized EXCEPT !.r = r]
            ELSE NotTokenized]
    /\ lastAccept = NoAccept
    /\ made = NotMade
    /\ InitRegistry
    /\ optionSecrets = acceptedSecrets

CallNext ==
    \/ TokenizeCall(AuthThread)
    \/ /\ tokenize[AuthThread].done
       /\ \E req \in Requests, tok \in Tokens :
            AuthorizeCall(AuthThread, req, tok)
    \/ AuthorizeGetHashes(AuthThread)
    \/ AuthorizeCompare(AuthThread)

CallSpec == CallInit /\ [][CallNext]_vars

(***************************************************************************)
(* All the public operations together: two threads that call Register,    *)
(* Stop, Accept, Tokenize and Authorize in any order while the loop runs.  *)
(* Tokenize is split at its call of best, which waits for the read lock;   *)
(* the request it is given has no signature header, for which the list of  *)
(* algorithms is "none" alone and best is still called.                    *)
(***************************************************************************)
\* the token and the body of a callback signed with an accepted secret
SignedToken == [alg |-> "sha1", principal |-> Sign("sha1", "s1", <<102>>)]

\* Tokenize(r) is called: the headers are read and parsed
TokenizeEnter(th) ==
    /\ pc[th] = "idle"
    /\ ~tokenize[th].done
    /\ pc' = [pc EXCEPT ![th] = "tokenize"]
    /\ UNCHANGED engine
    /\ UNCHANGED <<arg, localShutdown, ticker, snap, evnt, ret, log>>
    /\ UNCHANGED history
    /\ UNCHANGED callbacks
    /\ UNCHANGED extras
    /\ UNCHANGED registry

\* l.best(list) under the read lock, the dispatch and the return of Tokenize
TokenizeReturn(th) ==
    LET result == Tokenize(tokenize[th].r)
    IN  /\ pc[th] = "tokenize"
        /\ result.err # "ErrInvalidHeaderFormat" => mWriter = NoOne
        /\ tokenize' = [tokenize EXCEPT ![th] =
                [r |-> tokenize[th].r, t |-> result.t, err |-> result.err,
                 evnt |-> result.evnt, sent |-> result.sent, done |-> TRUE]]
        /\ pc' = [pc EXCEPT ![th] = "idle"]
        /\ UNCHANGED engine
        /\ UNCHANGED <<arg, localShutdown, ticker, snap, evnt, ret, log>>
        /\ UNCHANGED history
        /\ UNCHANGED callbacks
        /\ UNCHANGED <<lastAccept, optionSecrets, made>>
        /\ UNCHANGED registry

AllInit ==
    /\ InitEngine
    /\ tokenize = [t \in Threads |-> NotTokenized]
    /\ lastAccept = NoAccept
    /\ made = NotMade
    /\ InitRegistry
    /\ interval \in Intervals
    /\ webhookURL \in WebhookURLs \ {BadURL}
    /\ acceptedSecrets = <<"s1">>
    /\ hashPreferences = <<"sha1">>
    /\ hashes = {"sha1"}
    /\ optionSecrets = acceptedSecrets

\* the steps a goroutine takes on its own once it can: the scheduler runs
\* it, the HTTP exchange completes and the listeners return
AllProgress ==
    \/ Progress
    \/ \E t \in Threads : TokenizeReturn(t)
    \/ \E t \in Threads : AuthorizeGetHashes(t)
    \/ \E t \in Threads : AuthorizeCompare(t)

\* one thread owns the engine and registers, stops and replaces the secrets;
\* the other serves callbacks and may stop the engine too
Owner == MaxLoops + 1
Handler == MaxLoops + 2

AllNext ==
    \/ AllProgress
    \/ \E s \in Secrets \cup {NoSecret} : RegisterLock(Owner, s)
    \/ \E id \in LoopIds : Tick(id)
    \/ \E t \in Threads : StopBegin(t)
    \/ \E secs \in AcceptArgs : Accept(Owner, secs)
    \/ TokenizeEnter(Handler)
    \/ AuthorizeCall(Handler, Reader(<<102>>), SignedToken)

AllSpec == AllInit /\ [][AllNext]_vars /\ WF_vars(AllProgress)

(***************************************************************************)
(* New: from a URL, a registration and options to an engine or an error.   *)
(***************************************************************************)
\* the Listener literal of New, before the options
Fresh(url, r) ==
    [nil |-> FALSE, registration |-> r, webhookURL |-> url, interval |-> 0,
     acceptedSecrets |-> << >>, hashPreferences |-> << >>, hashes |-> {},
     body |-> << >>, update |-> 0]

applyPreferenceOnly(opt, l) ==
    CASE opt.kind = "Interval" ->
            [l |-> [l EXCEPT !.interval = opt.interval], err |-> "none"]
      [] opt.kind = "hash" ->
            [l |-> [l EXCEPT !.hashPreferences = Append(@, opt.name)],
             err |-> IF opt.err THEN "ErrInput" ELSE "none"]
      [] opt.kind = "AcceptedSecrets" ->
            [l |-> [l EXCEPT !.acceptedSecrets = @ \o opt.secret],
             err |-> "none"]
\* opt.apply(&l): the engine as the option leaves it, and its error
apply(opt, l) ==
    CASE opt.kind = "Interval" ->
            IF opt.interval < 0
            THEN [l |-> l, err |-> "ErrInput"]
            ELSE [l |-> [l EXCEPT !.interval = opt.interval], err |-> "none"]
      [] opt.kind = "hash" ->
            IF opt.err
            THEN [l |-> l, err |-> "ErrInput"]
            ELSE [l |-> [l EXCEPT
                            !.hashPreferences = Append(@, opt.name),
                            !.hashes = @ \cup {opt.name}],
                  err |-> "none"]
      [] opt.kind = "AcceptedSecrets" ->
            [l |-> [l EXCEPT !.acceptedSecrets = @ \o opt.secret],
             err |-> "none"]

\* the loop over opts: nil options are skipped, the first error ends it
RECURSIVE applyAll(_, _)
applyAll(opts, l) ==
    IF opts = << >>
    THEN [l |-> l, err |-> "none"]
    ELSE IF Head(opts).kind = "nil"
    THEN applyAll(Tail(opts), l)
    ELSE LET applied == apply(Head(opts), l)
         IN  IF applied.err # "none"
             THEN applied
             ELSE applyAll(Tail(opts), applied.l)

\* l.registration.Validate with NoUntil() added when an interval is set
Validate(l) ==
    IF l.registration.invalid \/ (l.interval # 0 /\ l.registration.until)
    THEN "ErrInput"
    ELSE "none"

\* return nil, err
ReturnPartial(l, err) == [l |-> l, err |-> err]
ReturnNil(l, err) == [l |-> NoListener, err |-> err]

\* New(url, r, opts...)
New(url, r, opts) ==
    LET trimmed == TrimSpace(url)
        applied == applyAll(opts, Fresh(trimmed, r))
    IN  IF r.nil
        THEN ReturnNil(NoListener, "ErrInput")
        ELSE IF trimmed = << >>
        THEN ReturnNil(NoListener, "ErrInput")
        ELSE IF applied.err # "none"
        THEN ReturnNil(applied.l, applied.err)
        ELSE IF Validate(applied.l) # "none"
        THEN ReturnNil(applied.l, Validate(applied.l))
        ELSE [l |-> [applied.l EXCEPT !.body = Marshal(InitialSecret),
                                      !.update = 1],
              err |-> "none"]

\* a call of New on the arguments at hand
NewCall ==
    /\ ~made.done
    /\ made' = [made EXCEPT !.l = New(made.url, made.r, made.opts).l,
                            !.err = New(made.url, made.r, made.opts).err,
                            !.done = TRUE]
    /\ UNCHANGED <<engine, procs, history, callbacks>>
    /\ UNCHANGED <<tokenize, lastAccept, optionSecrets>>
    /\ UNCHANGED registry

\* the options: a nil Option, Interval(-1s), Once(), Interval(1s),
\* AcceptSHA1(), AcceptNoHash(), AcceptCustom(name, nil) and
\* AcceptedSecrets("s1")
NilOption == [kind |-> "nil"]
IntervalOption(i) == [kind |-> "Interval", interval |-> i]
HashOption(name, err) == [kind |-> "hash", name |-> name, err |-> err]
SecretsOption(secs) == [kind |-> "AcceptedSecrets", secret |-> secs]
Options ==
    {NilOption, IntervalOption(0 - 1), IntervalOption(0), IntervalOption(1),
     HashOption("sha1", FALSE), HashOption("none", FALSE),
     HashOption("", TRUE), SecretsOption(<<"s1">>)}
MaxOptions == 2

Registrations ==
    {NilRegistration} \cup [nil : {FALSE}, invalid : BOOLEAN, until : BOOLEAN]
URLs ==
    {<< >>, <<" ", "\t">>, <<"h">>, <<" ", "h", " ">>}

NewInit ==
    /\ InitEngine
    /\ tokenize = [t \in Threads |-> NotTokenized]
    /\ lastAccept = NoAccept
    /\ InitRegistry
    /\ interval = 0
    /\ webhookURL \in WebhookURLs \ {BadURL}
    /\ acceptedSecrets = << >>
    /\ hashPreferences = <<"sha1">>
    /\ hashes = {"sha1"}
    /\ optionSecrets = acceptedSecrets
    /\ \E r \in Registrations, url \in URLs,
          opts \in SeqsUpTo(Options, MaxOptions) :
        made = [NotMade EXCEPT !.r = r, !.url = url, !.opts = opts]

NewNext == NewCall

(***************************************************************************)
(* An engine as New builds it from Accept... options, and the operations   *)
(* of a one-shot engine on it.                                             *)
(***************************************************************************)
\* AcceptSHA1(), AcceptNoHash() and AcceptCustom("x", fn)
AcceptOptions ==
    {HashOption("sha1", FALSE), HashOption("none", FALSE),
     HashOption("x", FALSE)}

BuiltInit ==
    /\ InitEngine
    /\ tokenize = [t \in Threads |-> NotTokenized]
    /\ lastAccept = NoAccept
    /\ InitRegistry
    /\ interval = 0
    /\ webhookURL \in WebhookURLs \ {BadURL}
    /\ acceptedSecrets = <<"s1">>
    /\ optionSecrets = acceptedSecrets
    /\ \E opts \in SeqsUpTo(AcceptOptions, MaxOptions) :
        LET built == New(<<"h">>, [nil |-> FALSE, invalid |-> FALSE,
                                   until |-> FALSE], opts)
        IN  /\ made = [r |-> built.l.registration, url |-> <<"h">>,
                       opts |-> opts, l |-> built.l, err |-> built.err,
                       done |-> TRUE]
            /\ hashPreferences = built.l.hashPreferences
            /\ hashes = built.l.hashes

BuiltNext ==
    \/ \E s \in Secrets \cup {NoSecret} : RegisterLock(Owner, s)
    \/ RegisterOnce(Owner)
    \/ RegisterReturn(Owner)
    \/ Prepare(Owner)
    \/ HttpDo(Owner)
    \/ Dispatch(Owner)
    \/ \E t \in Threads : StopBegin(t)
    \/ \E t \in Threads : StopWait(t)
    \/ \E secs \in SecretLists : Accept(Owner, secs)
    \/ TokenizeEnter(Handler)
    \/ TokenizeReturn(Handler)
    \/ AuthorizeCall(Handler, Reader(<<102>>), SignedToken)
    \/ AuthorizeGetHashes(Handler)
    \/ AuthorizeCompare(Handler)

BuiltSpec == BuiltInit /\ [][BuiltNext]_vars

NewSpec == NewInit /\ [][NewNext]_vars

(***************************************************************************)
(* The listeners registry of one event kind: addListener, the handle       *)
(* cancelListener returns, and visit, each a call on the registry's        *)
(* RWMutex.  Lock waits until no read lock is held, and RLock waits while  *)
(* a Lock call is waiting.                                                 *)
(***************************************************************************)
MaxListeners == 2
MaxDispatches == 2
MaxCancels == 2
ListenerIds == 1..MaxListeners

\* l.listeners.Remove(e): nothing happens if e is not in the list
RemoveNothing(l, e) == l
Remove(l, e) == SelectSeq(l, LAMBDA x : x # e)

\* some thread waits in l.lock.Lock()
LockWaiting == \E q \in Threads : visitor[q].pc = "lock"

\* addListener(newListener) is called: l.lock.Lock()
AddListener(t, e) ==
    /\ visitor[t].pc = "idle"
    /\ e \notin added
    /\ \A q \in Threads : ~(visitor[q].op = "add" /\ visitor[q].e = e)
    /\ visitor' = [visitor EXCEPT ![t] =
            [NoVisit EXCEPT !.pc = "lock", !.op = "add", !.e = e]]
    /\ UNCHANGED <<listeners, lock, added, gone, dispatchNo, subs,
                   delivered, cancels>>
    /\ UNCHANGED <<engine, procs, history, callbacks, extras>>

\* the handle of listener e is invoked by a thread that is in no other
\* call: l.lock.Lock()
CancelListener(t, e) ==
    /\ visitor[t].pc = "idle"
    /\ e \in added
    /\ cancels < MaxCancels
    /\ cancels' = cancels + 1
    /\ visitor' = [visitor EXCEPT ![t] =
            [NoVisit EXCEPT !.pc = "lock", !.op = "cancel", !.e = e]]
    /\ UNCHANGED <<listeners, lock, added, gone, dispatchNo, subs,
                   delivered>>
    /\ UNCHANGED <<engine, procs, history, callbacks, extras>>

\* the handle of listener e is invoked by the callback that thread t's visit
\* is in: l.lock.Lock(), with the visit's read lock held
CancelInCallback(t, e) ==
    /\ visitor[t].pc = "callback"
    /\ e \in added
    /\ cancels < MaxCancels
    /\ cancels' = cancels + 1
    /\ visitor' = [visitor EXCEPT ![t].pc = "lock", ![t].op = "cancel",
                                  ![t].e = e, ![t].inner = TRUE]
    /\ UNCHANGED <<listeners, lock, added, gone, dispatchNo, subs,
                   delivered>>
    /\ UNCHANGED <<engine, procs, history, callbacks, extras>>

\* Lock() returns, the list is changed, and Unlock(): PushBack for
\* addListener, Remove for a handle
LockAcquire(t) ==
    /\ visitor[t].pc = "lock"
    /\ \A q \in Threads : lock[q] = 0
    /\ IF visitor[t].op = "add"
       THEN /\ listeners' = Append(listeners, visitor[t].e)
            /\ added' = added \cup {visitor[t].e}
            /\ gone' = gone
       ELSE /\ listeners' = Remove(listeners, visitor[t].e)
            /\ gone' = gone \cup {visitor[t].e}
            /\ added' = added
    /\ visitor' = [visitor EXCEPT ![t] =
            IF visitor[t].inner
            THEN [visitor[t] EXCEPT !.pc = "callback", !.op = "none",
                                    !.inner = FALSE]
            ELSE NoVisit]
    /\ UNCHANGED <<lock, dispatchNo, subs, delivered, cancels>>
    /\ UNCHANGED <<engine, procs, history, callbacks, extras>>

\* visit(f) is called: l.lock.RLock() and e := l.listeners.Front()
VisitBegin(t) ==
    /\ visitor[t].pc = "idle"
    /\ dispatchNo < MaxDispatches
    /\ ~LockWaiting
    /\ lock' = [lock EXCEPT ![t] = 1]
    /\ dispatchNo' = dispatchNo + 1
    /\ subs' = Append(subs, added \ gone)
    /\ visitor' = [visitor EXCEPT ![t] =
            [NoVisit EXCEPT !.pc = "visit", !.at = 1, !.d = dispatchNo + 1]]
    /\ UNCHANGED <<listeners, added, gone, delivered, cancels>>
    /\ UNCHANGED <<engine, procs, history, callbacks, extras>>

\* f(e.Value): the listener at the visit's position is called
VisitCall(t) ==
    /\ visitor[t].pc = "visit"
    /\ visitor[t].at <= Len(listeners)
    /\ delivered' = delivered \cup {<<visitor[t].d, listeners[visitor[t].at]>>}
    /\ visitor' = [visitor EXCEPT ![t].pc = "callback"]
    /\ UNCHANGED <<listeners, lock, added, gone, dispatchNo, subs, cancels>>
    /\ UNCHANGED <<engine, procs, history, callbacks, extras>>

\* the listener returns and e = e.Next()
CallbackReturn(t) ==
    /\ visitor[t].pc = "callback"
    /\ visitor' = [visitor EXCEPT ![t].pc = "visit",
                                  ![t].at = visitor[t].at + 1]
    /\ UNCHANGED <<listeners, lock, added, gone, dispatchNo, subs,
                   delivered, cancels>>
    /\ UNCHANGED <<engine, procs, history, callbacks, extras>>

\* e == nil: the deferred l.lock.RUnlock() and the return of visit
VisitEnd(t) ==
    /\ visitor[t].pc = "visit"
    /\ visitor[t].at > Len(listeners)
    /\ lock' = [lock EXCEPT ![t] = 0]
    /\ visitor' = [visitor EXCEPT ![t] = NoVisit]
    /\ UNCHANGED <<listeners, added, gone, dispatchNo, subs, delivered,
                   cancels>>
    /\ UNCHANGED <<engine, procs, history, callbacks, extras>>

EventInit ==
    /\ InitEngine
    /\ tokenize = [t \in Threads |-> NotTokenized]
    /\ lastAccept = NoAccept
    /\ made = NotMade
    /\ InitRegistry
    /\ interval = 0
    /\ webhookURL \in WebhookURLs \ {BadURL}
    /\ acceptedSecrets = << >>
    /\ hashPreferences = <<"sha1">>
    /\ hashes = {"sha1"}
    /\ optionSecrets = acceptedSecrets

EventNext ==
    \/ \E t \in Threads, e \in ListenerIds : AddListener(t, e)
    \/ \E t \in Threads, e \in ListenerIds : CancelListener(t, e)
    \/ \E t \in Threads, e \in ListenerIds : CancelInCallback(t, e)
    \/ \E t \in Threads : LockAcquire(t)
    \/ \E t \in Threads : VisitBegin(t)
    \/ \E t \in Threads : VisitCall(t)
    \/ \E t \in Threads : CallbackReturn(t)
    \/ \E t \in Threads : VisitEnd(t)

EventSpec == EventInit /\ [][EventNext]_vars

(***************************************************************************)
(* Properties.                                                             *)
(***************************************************************************)
AliveLoops == {id \in LoopIds : Alive(id)}

\* the last event the registration listeners were given by process p
LastBy(p) ==
    LET idx == {i \in 1..Len(log) : log[i].by = p}
    IN  log[CHOOSE i \in idx : \A j \in idx : j <= i]

\* thread t takes a step of a Register call
RegisterStep(t) ==
    \/ pc[t] = "idle" /\ pc'[t] = "reg_check"
    \/ pc[t] = "reg_check" /\ pc'[t] # "reg_check"
\* thread t takes a step of a Stop call
StopStep(t) ==
    \/ pc[t] = "idle" /\ pc'[t] = "stop_wait"
    \/ pc[t] = "stop_wait" /\ pc'[t] = "idle"

\* C1: in every reachable state, whatever the interleaving of Register and
\* Stop calls of the threads, at most one background loop goroutine is alive
C1_AtMostOneLoop == Cardinality(AliveLoops) <= 1

\* a loop is alive, two Register calls have returned and a Stop has cancelled
C1_Witness ==
    /\ AliveLoops # {}
    /\ calls >= 2
    /\ ctx.cancelled

\* C2: once a Stop that found the engine started (it was called after an
\* interval-mode Register returned) has returned, no send-and-interpret cycle
\* of the loop is in progress
C2_NoCycleAfterStop == stopWasSet => \A id \in LoopIds : ~InRegister(id)

\* C3: a Stop that began while the loop was inside a send-and-interpret cycle
\* has not returned before that cycle's event was dispatched to the listeners
C3_StopWaitsForCycle ==
    \A t \in Threads : \A id \in LoopIds :
        (pc[t] # "stop_wait" /\ stopSaw[t][id] > 0)
            => dispatched[id] >= stopSaw[t][id]

\* a Stop that began mid-cycle has returned
C3_Witness ==
    \E t \in Threads : \E id \in LoopIds :
        /\ pc[t] = "idle"
        /\ stopSaw[t][id] > 0
        /\ stopsReturned > 0

\* the engine has no loop to stop: never started, or already cancelled
NothingToStop == ~shutdown \/ ctx.cancelled

\* C4: a Stop on an engine with no running loop (never started, one-shot) or
\* with a loop that was already stopped leaves every field of the engine as
\* it was, and with no loop alive its wait is never blocked
C4_StopIdempotent ==
    /\ [](AliveLoops = {} => WaitReady)
    /\ [][\A t \in Threads :
            (StopStep(t) /\ NothingToStop) => UNCHANGED engine]_vars

\* two Stop calls have returned on an engine whose loop was started
C4_Witness ==
    /\ stopsReturned >= 2
    /\ shutdown
    /\ ctx.cancelled

\* C5: with no interval, a Register call performs exactly one cycle and
\* returns its result, the calls made so far account for the events the
\* listeners got one for one, and no loop is ever started
C5_OneShot ==
    interval = 0 =>
        /\ ~shutdown
        /\ loopsStarted = 0
        /\ \A id \in LoopIds : pc[id] = "unborn"
        /\ Len(log) = calls + Cardinality({t \in Threads : pc[t] = "reg_ret"})
        /\ \A t \in Threads :
            /\ pc[t] = "reg_ret" =>
                 callSends[t] = 1 /\ LastBy(t).err = evnt[t].err
            /\ (pc[t] = "idle" /\ ret[t] # "none") =>
                 callSends[t] = 1 /\ ret[t] = LastBy(t).err

\* two one-shot calls have returned, one of them with an error
C5_Witness ==
    /\ interval = 0
    /\ calls >= 2
    /\ Len(log) = 2
    /\ \E t \in Threads : pc[t] = "idle" /\ ret[t] \notin {"none", "nil"}

\* C6: with an interval configured and no loop running when it is called, a
\* Register call starts the loop and returns success (stated for an engine
\* whose parent context is still live)
C6_IdleRegisterStartsLoop ==
    [][\A t \in Threads :
        (/\ pc[t] = "reg_check" /\ pc'[t] # "reg_check"
         /\ interval # 0
         /\ callSaw[t].idle
         /\ ~upstreamCancelled)
        => /\ \E id \in LoopIds : pc[id] = "unborn" /\ pc'[id] = "born"
           /\ pc'[t] = "idle"
           /\ ret'[t] = "nil"]_vars

\* C7: while a loop is running, a step of a Register call starts no send and
\* no loop and changes nothing of the engine but the payload secret, the body
\* and the pending signal, and these only when a secret was given; the call
\* returns success
C7_RunningRegisterIsNoOp ==
    [][\A t \in Threads :
        (RegisterStep(t) /\ AliveLoops # {})
        => /\ UNCHANGED <<interval, wg, shutdown, ctx, upstreamCancelled,
                          acceptedSecrets, hashPreferences, hashes>>
           /\ UNCHANGED <<ticker, log, loopsStarted>>
           /\ \A id \in LoopIds : pc'[id] = pc[id]
           /\ pc'[t] \in {"reg_check", "idle"}
           /\ pc'[t] = "idle" => ret'[t] = "nil"
           /\ (pc[t] = "reg_check" \/ arg'[t] = NoSecret)
                => UNCHANGED <<secret, body, update>>]_vars

\* a Register call that brought a secret has returned while the loop runs
C7_Witness ==
    /\ AliveLoops # {}
    /\ pendingVer > 0
    /\ calls >= 2
    /\ \A t \in Threads : pc[t] = "idle"
    /\ secret = "s1"

\* C8: a secret installed by Register while the loop runs is eventually
\* carried by a send-and-interpret cycle of the loop (the cycle copies a body
\* at least that new), with no timer tick needed, unless the loop is
\* cancelled; this holds also when the signal was dropped
C8_UpdateEventuallyTaken ==
    (\A id \in LoopIds : snapVer[id] < pendingVer)
        ~> ((\E id \in LoopIds : snapVer[id] >= pendingVer) \/ Done(ctx))

\* two secrets were installed while the loop ran and both signals were
\* dropped (the one New left was still pending); the loop, woken once and
\* by no tick, is in its second cycle with the newest body
C8_Witness ==
    /\ pendingVer = 3
    /\ \E id \in LoopIds :
        cycle[id] = 2 /\ snapVer[id] = pendingVer /\ InCycle(id)
    /\ update = 0
    /\ ticks = 0
    /\ ~Done(ctx)

\* C9: a Register call made after a Stop has returned on an interval-mode
\* engine, when its loop is gone, starts a new background loop
C9_RestartAfterStop ==
    [][\A t \in Threads :
        (/\ pc[t] = "reg_check" /\ pc'[t] = "idle"
         /\ interval # 0
         /\ callSaw[t].stopped
         /\ callSaw[t].idle)
        => \E id \in LoopIds : Alive(id)']_vars

\* C10: when the parent context is cancelled while the loop runs, the loop
\* terminates and releases the WaitGroup, and a later Register call returns
\* success and starts no loop
C10_UpstreamCancelStopsLoop ==
    /\ (upstreamCancelled /\ AliveLoops # {}) ~> (AliveLoops = {} /\ WaitReady)
    /\ [][\A t \in Threads :
            (/\ pc[t] = "reg_check" /\ pc'[t] # "reg_check"
             /\ upstreamCancelled
             /\ shutdown)
            => /\ pc'[t] = "idle"
               /\ ret'[t] = "nil"
               /\ UNCHANGED <<loopsStarted, ctx, wg>>
               /\ \A id \in LoopIds : pc'[id] = pc[id]]_vars

\* the loop ended because the parent context was cancelled, and a Register
\* call has returned since
C10_Witness ==
    /\ upstreamCancelled
    /\ ~ctx.cancelled
    /\ loopsStarted = 1
    /\ \E id \in LoopIds : pc[id] = "done"
    /\ calls >= 2
    /\ wg = 0

\* the send-and-interpret cycle p is in has not dispatched its event yet
Undispatched(p) == IF InCycle(p) THEN 1 ELSE 0

\* the events the registration listeners were given by process p
EventsBy(p) == {i \in 1..Len(log) : log[i].by = p}

\* C11: whenever a registration HTTP exchange is in flight, issued by a
\* one-shot Register call or by the loop, its sender holds the engine's lock
\* neither for reading nor for writing (the read lock of a cycle is taken and
\* released within the step that copies the body)
C11_NoLockDuringExchange == \A p \in Procs : pc[p] = "inflight" => mWriter # p

\* C12: after New and at every Register step, the cached body is the
\* serialization of the payload with its current secret, and a Register call
\* that brings a secret leaves that secret in the payload and in the body
C12_BodyReflectsSecret ==
    /\ [](body = Marshal(secret) /\ body.config.secret = secret)
    /\ [][\A t \in Threads :
            (pc[t] = "idle" /\ pc'[t] = "reg_check" /\ arg'[t] # NoSecret)
            => (secret' = arg'[t] /\ body'.config.secret = arg'[t])]_vars

\* a one-shot Register call that brought a secret has returned
C12_Witness ==
    /\ interval = 0
    /\ secret = "s1"
    /\ mWriter = NoOne
    /\ calls >= 1
    /\ \A t \in Threads : pc[t] = "idle"

\* C13: a cycle sends the body that was cached when it took its snapshot,
\* which carries the secret of the latest completed update; an update that
\* completes while the request is in flight does not alter the body of that
\* request, and a cycle that finds no newer update carries the current body
C13_SendCarriesLatestBody ==
    /\ [](\A p \in Procs :
            (InCycle(p) /\ snapVer[p] = bodyVer) => snap[p] = body)
    /\ [][\A p \in Procs :
            /\ (pc[p] = "snap" /\ pc'[p] # "snap")
                  => (snap'[p] = body /\ snap'[p].config.secret = secret)
            /\ (InCycle(p) /\ InCycle(p)') => snap'[p] = snap[p]]_vars

\* a Register call installed a new secret and returned while a request of the
\* loop with the old body is in flight
C13_Witness ==
    /\ \E id \in LoopIds :
        /\ pc[id] = "inflight"
        /\ snap[id] = Marshal(InitialSecret)
    /\ secret = "s1"
    /\ body = Marshal("s1")
    /\ \A t \in Threads : pc[t] = "idle"

\* C14: the event a cycle is about to dispatch classifies its outcome: a
\* request that could not be built or decorated is "not attempted"; a
\* transport failure is "failed"; any status other than 200, other 2xx codes
\* included, is "failed" with the response body captured; status 200 is a
\* success with no error and Until = At + the configured duration
C14_Classification ==
    \A p \in Procs :
        pc[p] = "dispatch" =>
            LET e == evnt[p]
            IN  /\ (e.failed # "none") # (e.resp # "none")
                /\ e.failed # "none" =>
                     /\ e.err = "ErrRegistrationNotAttempted"
                     /\ ~e.sent
                /\ e.resp = "transport error" =>
                     e.err = "ErrRegistrationFailed"
                /\ e.resp \in Responses \ {"transport error", "200"} =>
                     /\ e.err = "ErrRegistrationFailed"
                     /\ e.status = StatusCode(e.resp)
                     /\ e.body = ResponseBody(e.resp)
                /\ e.resp = "200" =>
                     /\ e.err = "nil"
                     /\ e.status = 200
                     /\ e.at > 0
                     /\ e.until = e.at + registrationDuration

\* a cycle was answered 204 and is about to dispatch its event
C14_Witness ==
    \E p \in Procs : pc[p] = "dispatch" /\ evnt[p].resp = "204"

\* C15: every cycle, whatever its outcome, gives exactly one event to each
\* subscribed registration listener, and a one-shot Register call returns
\* the Err of the event its cycle dispatched
C15_OneEventPerCycle ==
    /\ \A p \in Procs :
        /\ Cardinality(EventsBy(p)) = dispatched[p]
        /\ dispatched[p] = cycle[p] - Undispatched(p)
    /\ \A i \in 1..Len(log) :
        \A k \in DOMAIN registrationListeners :
            Cardinality({j \in DOMAIN log[i].to :
                            log[i].to[j] = registrationListeners[k]}) = 1
    /\ \A t \in Threads :
        (pc[t] = "idle" /\ dispatched[t] > 0) => ret[t] = LastBy(t).err

\* a one-shot Register call has returned "registration not attempted" and
\* the listeners were given that event
C15_Witness ==
    \E t \in Threads :
        /\ pc[t] = "idle"
        /\ ret[t] = "ErrRegistrationNotAttempted"
        /\ dispatched[t] = 1
        /\ LastBy(t).to = registrationListeners

\* C16: the decorators a cycle has invoked are a prefix of the configured
\* sequence, in that order; when one fails it is the last one invoked, no
\* request is executed and the outcome is "not attempted" with status 0; a
\* request is executed only after all of them were applied
C16_DecoratorsInOrder ==
    \A p \in Procs :
        InCycle(p) =>
            LET e == evnt[p]
                n == Len(e.invoked)
            IN  /\ n <= Len(reqDecorators)
                /\ e.invoked = SubSeq(reqDecorators, 1, n)
                /\ (e.failed \notin {"none", "NewRequest"}) =>
                     /\ n > 0
                     /\ e.invoked[n] = e.failed
                     /\ pc[p] = "dispatch"
                     /\ ~e.sent
                     /\ e.resp = "none"
                     /\ e.err = "ErrRegistrationNotAttempted"
                     /\ e.status = 0
                /\ (pc[p] = "inflight" \/ e.sent) => e.invoked = reqDecorators

\* the first decorator failed: the second was not invoked and the event is
\* about to be dispatched
C16_Witness ==
    \E p \in Procs :
        /\ pc[p] = "dispatch"
        /\ evnt[p].failed = "d1"
        /\ evnt[p].invoked = <<"d1">>

\* an Authorize call of thread th has ended, by a return or by a panic
Ended(th) == authorize[th].err \notin {"none", "pending"}

\* an Authorize call of thread th has returned
Returned(th) == Ended(th) /\ authorize[th].err # "panic"

\* the token of the call carries the signature of the body under alg and key
SignedWith(th, key) ==
    /\ authorize[th].t # NoToken
    /\ authorize[th].t.principal =
          Sign(authorize[th].t.alg, key, authorize[th].carried)

\* the secrets getHashes found accepted
AcceptedAt(th) ==
    {authorize[th].accepted[i] : i \in DOMAIN authorize[th].accepted}

\* C17: for every secret of the accepted list, at whatever position, every
\* configured algorithm, "none" included, and every body, Authorize returns
\* success for a request with that body and the token (A, hex(HMAC(A, S,
\* body)))
C17_ValidSignatureAuthorized ==
    \A th \in Threads :
        (/\ Ended(th)
         /\ authorize[th].snapped
         /\ authorize[th].t.alg \in hashes
         /\ \E key \in AcceptedAt(th) : SignedWith(th, key))
        => authorize[th].err = "nil"

\* C18: a token that carries the HMAC computed with a secret that is not in
\* the accepted list when Authorize takes its snapshot is rejected with
\* ErrInvalidSignature, for every configured algorithm
C18_UnacceptedSecretRejected ==
    \A th \in Threads :
        (/\ Ended(th)
         /\ authorize[th].snapped
         /\ authorize[th].t.alg \in hashes
         /\ \E key \in Signers \ AcceptedAt(th) : SignedWith(th, key))
        => authorize[th].err = "ErrInvalidSignature"

\* C19: Authorize returns the first failure of a fixed order: no token gives
\* ErrNoToken; otherwise a principal that is no hex gives
\* ErrInvalidSignature; otherwise an algorithm that is not configured gives
\* ErrNotAcceptedHash; otherwise a signature that matches no accepted secret
\* gives ErrInvalidSignature
C19_FirstFailureInOrder ==
    \A th \in Threads :
        Ended(th) =>
            LET f == authorize[th]
            IN  IF f.t = NoToken
                THEN f.err = "ErrNoToken"
                ELSE IF DecodeString(f.t.principal).err # "nil"
                THEN f.err = "ErrInvalidSignature"
                ELSE IF f.t.alg \notin hashes
                THEN f.err = "ErrNotAcceptedHash"
                ELSE (\A key \in AcceptedAt(th) :
                        DecodeString(f.t.principal).bytes
                            # Sum(HashFn(f.t.alg), key, f.carried))
                     => f.err = "ErrInvalidSignature"

\* C20: after Authorize has returned with any outcome but a failure to read
\* the body, the request body read from its start yields the bytes it
\* carried before the call; a nil body is read as no bytes, stays nil and is
\* no error
C20_BodyRestored ==
    \A th \in Threads :
        /\ (Returned(th) /\ authorize[th].err # "ErrUnableToReadBody") =>
              /\ authorize[th].r.pos = 0
              /\ Remaining(authorize[th].r) = authorize[th].carried
        /\ (Ended(th) /\ authorize[th].r.nil) =>
              /\ authorize[th].err # "ErrUnableToReadBody"
              /\ authorize[th].msg = << >>

\* a request with a body was authorized and its body can be read again
C20_Witness ==
    \E th \in Threads :
        /\ authorize[th].err = "nil"
        /\ authorize[th].carried = <<102>>
        /\ ~authorize[th].r.nil
        /\ Remaining(authorize[th].r) = <<102>>

\* C21: on an engine configured with "none", Authorize with the token
\* ("none", empty principal) goes through the comparison for every accepted
\* list, empty or not: no hex error, no crash, never success, and the result
\* is ErrInvalidSignature
C21_NoHashFollowsComparison ==
    \A th \in Threads :
        (/\ Ended(th)
         /\ authorize[th].snapped
         /\ authorize[th].t = [alg |-> "none", principal |-> << >>]
         /\ "none" \in hashes)
        => authorize[th].err = "ErrInvalidSignature"


\* thread th has a finished Tokenize call whose consulted header values
\* were all blank or well-formed
Parsed(th) ==
    tokenize[th].done /\ tokenize[th].evnt.Err # "ErrInvalidHeaderFormat"

\* the algorithms a request offers, as Tokenize collected them ("none"
\* first, then the request's in order)
Offered(th) ==
    {tokenize[th].evnt.Algorithms[i] :
        i \in DOMAIN tokenize[th].evnt.Algorithms}

\* the positions in hashPreferences of the algorithms the request offers
Configured(th) ==
    {k \in DOMAIN hashPreferences : Spell(hashPreferences[k]) \in Offered(th)}

\* C22: when the request's offers are well-formed and at least one of them,
\* the implicit "none" included, is configured, Tokenize returns the offer
\* that comes earliest in hashPreferences, whatever the order of the offers
\* in the request
C22_EarliestPreferenceWins ==
    \A th \in Threads :
        (Parsed(th) /\ Configured(th) # {})
        => /\ tokenize[th].err = "none"
           /\ \E k \in Configured(th) :
                /\ \A j \in Configured(th) : k <= j
                /\ tokenize[th].t.alg = hashPreferences[k]

\* C22 witness: the request lists a configured algorithm before the one
\* that is returned
C22_Witness ==
    \E th \in Threads :
        /\ Parsed(th)
        /\ tokenize[th].err = "none"
        /\ \E i, j \in DOMAIN tokenize[th].evnt.Algorithms :
            /\ 1 < i
            /\ i < j
            /\ tokenize[th].evnt.Algorithms[j] = Spell(tokenize[th].t.alg)
            /\ \E k \in Configured(th) :
                /\ Spell(hashPreferences[k]) = tokenize[th].evnt.Algorithms[i]
                /\ hashPreferences[k] # tokenize[th].t.alg


\* the values of the header Tokenize consults
Consulted(th) ==
    IF Len(tokenize[th].r.xmidt) > 0
    THEN tokenize[th].r.xmidt
    ELSE tokenize[th].r.webpa

Blank(v) == \A i \in DOMAIN v : v[i] \in Whitespace

\* a value with exactly one '=' and something other than blanks on both
\* sides of it
WellFormed(v) ==
    /\ Cardinality({i \in DOMAIN v : v[i] = "="}) = 1
    /\ LET p == CHOOSE i \in DOMAIN v : v[i] = "="
       IN  /\ ~Blank(SubSeq(v, 1, p - 1))
           /\ ~Blank(SubSeq(v, p + 1, Len(v)))

Malformed(v) == ~Blank(v) /\ ~WellFormed(v)

\* the algorithm a well-formed value names
NamedBy(v) ==
    LET p == CHOOSE i \in DOMAIN v : v[i] = "="
    IN  ToLower(TrimSpace(SubSeq(v, 1, p - 1)))

\* a well-formed value that names a configured algorithm
OffersConfigured(v) ==
    /\ WellFormed(v)
    /\ \E k \in DOMAIN hashPreferences : Spell(hashPreferences[k]) = NamedBy(v)

\* C23: a malformed value among those of the consulted header fails the
\* whole call with InvalidHeaderFormat and no token, whatever the other
\* values are
C23_MalformedRejectsAll ==
    \A th \in Threads :
        (/\ tokenize[th].done
         /\ \E i \in DOMAIN Consulted(th) : Malformed(Consulted(th)[i]))
        => /\ tokenize[th].t = NoToken
           /\ tokenize[th].err = "ErrInvalidHeaderFormat"

\* C23 witness: a call is rejected for a malformed value that follows a
\* well-formed offer of a configured algorithm
C23_Witness ==
    \E th \in Threads :
        /\ tokenize[th].done
        /\ tokenize[th].err = "ErrInvalidHeaderFormat"
        /\ \E i, j \in DOMAIN Consulted(th) :
            /\ i < j
            /\ OffersConfigured(Consulted(th)[i])
            /\ Malformed(Consulted(th)[j])

\* what a finished call returned and dispatched
Outcome(th) ==
    [t |-> tokenize[th].t, err |-> tokenize[th].err,
     evnt |-> tokenize[th].evnt, sent |-> tokenize[th].sent]

\* C24: with at least one Xmidt-Signature value in the request, the outcome
\* of Tokenize is the same for every content of X-Webpa-Signature
C24_PreferredShadowsLegacy ==
    \A th \in Threads :
        (tokenize[th].done /\ Len(tokenize[th].r.xmidt) > 0)
        => \A w \in SeqsUpTo(LegacyValues, 1) :
            Tokenize([tokenize[th].r EXCEPT !.webpa = w]) = Outcome(th)

\* C24 witness: a request whose Xmidt-Signature values are all blank and
\* whose X-Webpa-Signature value is malformed is not rejected for it
C24_Witness ==
    \E th \in Threads :
        /\ tokenize[th].done
        /\ Len(tokenize[th].r.xmidt) > 0
        /\ \A i \in DOMAIN tokenize[th].r.xmidt : Blank(tokenize[th].r.xmidt[i])
        /\ \E i \in DOMAIN tokenize[th].r.webpa :
            Malformed(tokenize[th].r.webpa[i])
        /\ tokenize[th].err # "ErrInvalidHeaderFormat"

\* C25: a request without a non-blank signature value yields the token
\* ("none", empty) when "none" is configured and AlgorithmNotFound when it
\* is not; and a call fails with AlgorithmNotFound exactly when its header
\* values were parsed and none of the offers, "none" included, is configured
C25_NotFoundIffNothingConfigured ==
    \A th \in Threads :
        LET values == Consulted(th)
            prefs == {Spell(hashPreferences[k]) : k \in DOMAIN hashPreferences}
        IN  tokenize[th].done
            => /\ (\A i \in DOMAIN values : Blank(values[i]))
                  => IF Spell("none") \in prefs
                     THEN /\ tokenize[th].err = "none"
                          /\ tokenize[th].t =
                                [alg |-> "none", principal |-> << >>]
                     ELSE /\ tokenize[th].err = "ErrAlgorithmNotFound"
                          /\ tokenize[th].t = NoToken
               /\ tokenize[th].err = "ErrAlgorithmNotFound"
                  <=> /\ \A i \in DOMAIN values : ~Malformed(values[i])
                      /\ Spell("none") \notin prefs
                      /\ \A i \in DOMAIN values :
                          Blank(values[i]) \/ NamedBy(values[i]) \notin prefs

\* C25 witness: a request whose only signature values are blank gets the
\* token for "none"
C25_Witness ==
    \E th \in Threads :
        /\ tokenize[th].done
        /\ Len(Consulted(th)) > 0
        /\ \A i \in DOMAIN Consulted(th) : Blank(Consulted(th)[i])
        /\ tokenize[th].t = [alg |-> "none", principal |-> << >>]

\* C26: a returned token names a configured algorithm and, when that is
\* "none", has an empty principal, also when the request offers none=value
C26_TokenWellFormed ==
    \A th \in Threads :
        (tokenize[th].done /\ tokenize[th].err = "none")
        => /\ \E k \in DOMAIN hashPreferences :
                hashPreferences[k] = tokenize[th].t.alg
           /\ tokenize[th].t.alg = "none" => tokenize[th].t.principal = << >>


\* a step that gives the accepted list or the record of Accept a new value
AcceptStep == acceptedSecrets' # acceptedSecrets \/ lastAccept' # lastAccept

\* thread th's Authorize call reads the accepted list in this step
ReadsAccepted(th) == ~authorize[th].snapped /\ authorize'[th].snapped

\* C27: after an Accept call the accepted list is its argument, whatever
\* the list held before; an Authorize call that reads the list after an
\* Accept call finds the argument of the last one; and Accept leaves the
\* payload's secret, the cached body, the hash configuration and the run
\* state as they were
C27_AcceptReplaces ==
    /\ [](lastAccept.called => acceptedSecrets = lastAccept.arg)
    /\ [][\A th \in Threads :
            (ReadsAccepted(th) /\ lastAccept.called)
            => authorize'[th].accepted = lastAccept.arg]_vars
    /\ [][AcceptStep =>
            UNCHANGED <<secret, body, hashPreferences, hashes, interval,
                        shutdown, ctx, wg, update, mWriter, procs>>]_vars

\* C27 witness: Accept replaced a list that held the signer's secret by one
\* that does not, and the signed callback is then rejected
C27_Witness ==
    \E th \in Threads, k \in Signers :
        /\ lastAccept.called
        /\ \E i \in DOMAIN optionSecrets : optionSecrets[i] = k
        /\ lastAccept.arg # << >>
        /\ \A i \in DOMAIN lastAccept.arg : lastAccept.arg[i] # k
        /\ authorize[th].snapped
        /\ authorize[th].accepted = lastAccept.arg
        /\ authorize[th].t.alg # "none"
        /\ SignedWith(th, k)
        /\ authorize[th].err = "ErrInvalidSignature"


\* an option whose apply fails
FailingOption(opt) ==
    \/ opt.kind = "Interval" /\ opt.interval < 0
    \/ opt.kind = "hash" /\ opt.err

\* the interval the options of the call set: that of the last Interval
\* option, zero without one
IntervalSet ==
    LET at == {i \in DOMAIN made.opts : made.opts[i].kind = "Interval"}
    IN  IF at = {}
        THEN 0
        ELSE made.opts[CHOOSE i \in at : \A j \in at : j <= i].interval

\* the arguments of the call are ones New has to refuse
Refused ==
    \/ made.r.nil
    \/ \A i \in DOMAIN made.url : made.url[i] \in Whitespace
    \/ \E i \in DOMAIN made.opts : FailingOption(made.opts[i])
    \/ made.r.invalid
    \/ made.r.until /\ IntervalSet # 0

\* C28: New returns an engine and no error, or no engine and ErrInput; it
\* fails for a nil registration, a URL that is blank, an option that
\* fails and a registration that fails validation, and for nothing else;
\* the engine it returns has the trimmed URL, the options' settings and the
\* marshalled registration as body
C28_AllOrNothing ==
    made.done
    => /\ \/ made.l = NoListener /\ made.err = "ErrInput"
          \/ ~made.l.nil /\ made.err = "none"
       /\ made.err = "ErrInput" <=> Refused
       /\ ~made.l.nil
          => /\ made.l.body = Marshal(InitialSecret)
             /\ made.l.webhookURL = TrimSpace(made.url)
             /\ made.l.interval = IntervalSet
             /\ made.l.registration = made.r

\* C28 witness: New fails for an option that follows one already applied,
\* and returns no engine
C28_Witness ==
    /\ made.done
    /\ Len(made.opts) = 2
    /\ made.opts[1].kind = "hash"
    /\ ~FailingOption(made.opts[1])
    /\ FailingOption(made.opts[2])
    /\ ~made.r.nil
    /\ made.l = NoListener
    /\ made.err = "ErrInput"


\* the visits that have returned
Visited == {d \in 1..dispatchNo : \A t \in Threads : visitor[t].d # d}

\* the handle of listener e returns in this step
HandleReturns(e) ==
    \E t \in Threads :
        /\ visitor[t].pc = "lock"
        /\ visitor[t].op = "cancel"
        /\ visitor[t].e = e
        /\ visitor'[t].pc # "lock"

\* C29: a visit calls no listener whose handle had returned when the visit
\* began (subs holds the listeners subscribed then); a further invocation of
\* a handle changes nothing; and every visit that has returned called every
\* listener that was subscribed when it began
C29_CancelledGetsNothing ==
    /\ [](\A pair \in delivered : pair[2] \in subs[pair[1]])
    /\ [](\A d \in Visited : \A e \in subs[d] : <<d, e>> \in delivered)
    /\ [][\A e \in gone :
            HandleReturns(e) => listeners' = listeners /\ gone' = gone]_vars

\* C29 witness: the handle of one listener was invoked twice and has
\* returned, and a visit that began afterwards has called the other listener
\* and not this one
C29_Witness ==
    \E e, other \in added, d \in Visited :
        /\ e # other
        /\ gone = {e}
        /\ cancels = 2
        /\ \A t \in Threads : visitor[t].pc = "idle"
        /\ subs[d] = {other}
        /\ <<d, other>> \in delivered
        /\ <<d, e>> \notin delivered

\* C30: a thread that invokes a handle from a callback does not wait for
\* the write lock while its own visit holds the read lock, the state in
\* which neither the call nor the visit can ever finish
C30_CancelInCallbackCompletes ==
    \A t \in Threads : visitor[t].pc = "lock" => lock[t] = 0


\* a frame's call has dispatched one event, to every listener of the list
\* ls, and the event's Err is the error the call returned
OneEvent(frame, ls) ==
    /\ Len(frame.sent) = 1
    /\ frame.sent[1].to = ls
    /\ frame.sent[1].evnt.Err = frame.err

\* C31: a Tokenize call and an Authorize call that has returned, by whatever
\* path, has dispatched exactly one event to each subscribed listener of its
\* kind, with the returned error as Err; a call that has not returned yet
\* has dispatched none
C31_OneEventPerCall ==
    \A th \in Threads :
        /\ IF tokenize[th].done
           THEN OneEvent(tokenize[th], tokenizeListeners)
           ELSE tokenize[th].sent = << >>
        /\ Returned(th) => OneEvent(authorize[th], authorizeListeners)
        /\ authorize[th].err \in {"none", "pending"}
            => authorize[th].sent = << >>

\* C31 witness: a Tokenize call that failed and an Authorize call that
\* succeeded have both returned
C31_Witness ==
    \E th \in Threads :
        /\ tokenize[th].done
        /\ tokenize[th].err = "ErrInvalidHeaderFormat"
        /\ tokenize[th].sent # << >>
        /\ authorize[th].err = "nil"
        /\ authorize[th].sent # << >>


\* C32: with Register, Stop, Accept, Tokenize and Authorize called from two
\* threads in any order while the loop runs, every call a thread is in
\* eventually returns
C32_EveryCallReturns ==
    \A t \in Threads : (pc[t] # "idle") ~> (pc[t] = "idle")

\* the processes that are inside a send-and-interpret cycle
Sending == {p \in Procs : InRegister(p)}

\* C33: at most one send-and-interpret cycle of the engine is in progress at
\* any time; the loop starts a cycle only when the event of its previous one
\* has been dispatched, and the event it dispatches is that of the cycle it
\* started last, so the listeners get the loop's events in the order of the
\* sends
C33_CyclesSequential ==
    /\ [](/\ Cardinality(Sending) <= 1
          /\ \A id \in LoopIds :
                /\ cycle[id] = dispatched[id] + Undispatched(id)
                /\ Cardinality(EventsBy(id)) = dispatched[id])
    /\ [][\A id \in LoopIds :
            /\ cycle'[id] # cycle[id] => dispatched[id] = cycle[id]
            /\ dispatched'[id] # dispatched[id]
                => /\ dispatched'[id] = cycle[id]
                   /\ log' = Append(log, log'[Len(log')])
                   /\ log'[Len(log')].by = id]_vars

\* C33 witness: the loop is in its third cycle, the listeners have had the
\* events of the first two, and a caller is waiting in Stop
C33_Witness ==
    \E id \in LoopIds :
        /\ cycle[id] = 3
        /\ pc[id] = "inflight"
        /\ Cardinality(EventsBy(id)) = 2
        /\ \E t \in Threads : pc[t] = "stop_wait"

\* C34: the update channel never holds more than one signal; a Register
\* call that brings a secret is never kept waiting by the channel and leaves
\* exactly one signal pending however many were sent before; and when the
\* loop wakes up on the channel nothing stays pending, so the updates that
\* arrived since its last wait cause one send
C34_SignalsCoalesce ==
    /\ [](/\ update \in 0..1
          /\ \A t \in Threads :
                (pc[t] = "idle" /\ mWriter = NoOne /\ ops < MaxOps)
                    => \A s \in Secrets : ENABLED RegisterLock(t, s))
    /\ [][/\ \A t \in Threads :
              (pc[t] = "idle" /\ pc'[t] = "reg_check" /\ arg'[t] # NoSecret)
                  => update' = 1
          /\ \A id \in LoopIds :
              (pc[id] = "select" /\ pc'[id] = "snap" /\ ticker' = ticker)
                  => update = 1 /\ update' = 0]_vars

\* C34 witness: three signals were sent, one by New and two by Register calls
\* that brought a secret, one of them onto the full channel; the loop, with
\* no tick, was woken twice and waits with the newest body sent and nothing
\* pending
C34_Witness ==
    \E id \in LoopIds :
        /\ pc[id] = "select"
        /\ cycle[id] = 3
        /\ bodyVer = 3
        /\ snapVer[id] = 3
        /\ update = 0
        /\ ticks = 0
        /\ ~Done(ctx)

\* C35: once a Stop has cancelled the loop's context, the loop leaves its
\* select only by exiting: it starts no send-and-interpret cycle from there,
\* also when a tick or an update signal is pending
C35_NoCycleAfterCancel ==
    [][\A id \in LoopIds :
        (ctx.cancelled /\ pc[id] = "select") => pc'[id] # "snap"]_vars

\* C36: under fair scheduling, with every HTTP exchange completing, every
\* Stop call eventually returns, and once the cancellation has fired the
\* loop eventually terminates, whatever ticks and updates arrive
C36_StopReturns ==
    /\ \A t \in Threads : (pc[t] = "stop_wait") ~> (pc[t] = "idle")
    /\ (ctx.cancelled /\ AliveLoops # {}) ~> (AliveLoops = {})

\* C37: the names in hashPreferences are the keys of hashes, for every
\* sequence of Accept options New is given, repeated ones and custom names
\* included, and no operation on the engine changes either of them
C37_HashesInLockstep ==
    /\ [](/\ \A i \in DOMAIN hashPreferences : hashPreferences[i] \in hashes
          /\ \A name \in hashes :
                \E i \in DOMAIN hashPreferences : hashPreferences[i] = name
          /\ Len(hashPreferences) = Len(made.opts))
    /\ [][UNCHANGED <<hashPreferences, hashes>>]_vars

\* C37 witness: an engine built with the same Accept option twice, on which
\* Register, Accept, Tokenize and Authorize have been called
C37_Witness ==
    /\ hashPreferences = <<"x", "x">>
    /\ hashes = {"x"}
    /\ calls >= 1
    /\ lastAccept.called
    /\ tokenize[Handler].done
    /\ Ended(Handler)

\* the accepted list as the last writer left it: the argument of the last
\* Accept call, or the list of the AcceptedSecrets options
CurrentVersion == IF lastAccept.called THEN lastAccept.arg ELSE optionSecrets

\* the signature of thread th's call is the digest of its message under one
\* of the secrets of its snapshot
SnapshotMatches(th) ==
    \E i \in DOMAIN authorize[th].accepted :
        Equal(Sum(HashFn(authorize[th].t.alg), authorize[th].accepted[i],
                  authorize[th].msg),
              authorize[th].secret)

\* C38: the accepted list is always one whole version; an Authorize call
\* reads it once, builds one HMAC per secret of that version in list order,
\* keeps that snapshot whatever Accept does afterwards, and returns success
\* exactly when a secret of the snapshot matches
C38_OneVersion ==
    /\ [](acceptedSecrets = CurrentVersion)
    /\ [](\A th \in Threads :
            (Returned(th) /\ authorize[th].snapped
                /\ authorize[th].t.alg \in hashes)
            => (authorize[th].err = "nil" <=> SnapshotMatches(th)))
    /\ [][\A th \in Threads :
            /\ ReadsAccepted(th)
                => /\ authorize'[th].accepted = CurrentVersion
                   /\ authorize'[th].err = "pending"
                        => /\ Len(authorize'[th].hashes) = Len(CurrentVersion)
                           /\ \A i \in DOMAIN CurrentVersion :
                                authorize'[th].hashes[i].key
                                    = CurrentVersion[i]
            /\ (authorize[th].snapped /\ authorize'[th].snapped)
                => /\ authorize'[th].accepted = authorize[th].accepted
                   /\ authorize'[th].hashes = authorize[th].hashes]_vars

\* C38 witness: a call took its snapshot of a list whose second secret
\* signed the callback, Accept then replaced the list by one without that
\* secret, and the call returned success
C38_Witness ==
    \E th \in Threads :
        /\ authorize[th].err = "nil"
        /\ authorize[th].accepted = <<"s2", "s1">>
        /\ SignedWith(th, "s1")
        /\ authorize[th].carried = <<102>>
        /\ lastAccept.called
        /\ lastAccept.arg = << >>
        /\ acceptedSecrets = << >>

\* the loop waits at its select after a cycle, its n-th, that failed, and a
\* tick or an update signal is pending
FailedAndWoken(id, n) ==
    /\ pc[id] = "select"
    /\ cycle[id] = n
    /\ LastBy(id).err # "nil"
    /\ ticker[id] = 1 \/ update = 1

\* C39: a cycle of the loop that failed leaves the loop alive at its select
\* and the run state as it was, and the loop performs another cycle when a
\* tick or an update signal wakes it, unless it is cancelled
C39_FailureKeepsLoop ==
    /\ [][\A id \in LoopIds :
            (pc[id] = "dispatch" /\ pc'[id] # "dispatch"
                /\ evnt[id].err # "nil")
            => /\ pc'[id] = "select"
               /\ UNCHANGED <<interval, shutdown, ctx, wg, update, secret,
                              body>>]_vars
    /\ \A id \in LoopIds : \A n \in 1..MaxOps :
            FailedAndWoken(id, n) ~> (cycle[id] > n \/ Done(ctx))

\* C39 witness: the first cycle of the loop failed, and the loop, not
\* cancelled, has its second request in flight
C39_Witness ==
    \E id \in LoopIds :
        /\ cycle[id] = 2
        /\ pc[id] = "inflight"
        /\ Len(log) = 1
        /\ log[1].err = "ErrRegistrationFailed"
        /\ shutdown
        /\ ~Done(ctx)

\* C40: every cycle of the loop is caused by its start, by a tick or by a
\* secret a Register call brought (bodyVer counts these from 1): the loop has
\* started at most one cycle more than there were ticks and such secrets, so
\* with neither, on an engine as New built it, it performs one send only
C40_EverySendHasCause ==
    \A id \in LoopIds : cycle[id] <= 1 + ticks + (bodyVer - 1)

=============================================================================
